---------------------------- MODULE Spec2Model ----------------------------
(***************************************************************************)
(* Metric registry, alias table and the calculate_metric / calc evaluation *)
(* path of metrics_interpreter.py, and get_metric_requirements of          *)
(* metrics_utils.py.                                                       *)
(*                                                                         *)
(* Python strings are sequences of one-character strings, so that the      *)
(* string operations of the code (str.replace, str.endswith, ==, the       *)
(* tokenisation done by eval) are computed and not assumed.  Python        *)
(* numbers are exact rationals [t |-> "num", n, d] in lowest terms: `/' is *)
(* true division, and float rounding is not modelled.                      *)
(***************************************************************************)
EXTENDS Integers, Sequences, FiniteSets, Bags, TLC

VARIABLES
    arg_metric_name,  \* the metric name the caller supplies
    arg_data,         \* the caller's dataset: input identifier -> value
    pc,               \* "call" before the public call, "done" after it
    outcome,          \* how the call ended: Return(dict) or Raise(type, msg)
    steps,            \* the steps the call went through, in order
    evaluated,        \* the source texts the call handed to eval, in order
    arg_metrics_dict, \* the metrics dictionary of the call, where the caller
                      \* chooses one (calc's first argument, the registry
                      \* get_metric_requirements reads); <<>> elsewhere
    tables,           \* what the module's METRICS and METRIC_ALIASES objects
                      \* hold, where a run makes several calls; <<>> elsewhere
    caller,           \* what the caller of several calls did and holds;
                      \* <<>> elsewhere
    threads           \* the invocations in progress, one per thread, where
                      \* several run at once; <<>> elsewhere

vars == <<arg_metric_name, arg_data, pc, outcome, steps, evaluated,
          arg_metrics_dict, tables, caller, threads>>

----------------------------------------------------------------------------
(* Bounds of the model *)

\* dataset values are the integers -MaxVal .. MaxVal
MaxVal == 2

----------------------------------------------------------------------------
(* Python values *)

Abs(i) == IF i < 0 THEN -i ELSE i

RECURSIVE GCD(_, _)
GCD(a, b) == IF b = 0 THEN a ELSE GCD(b, a % b)

\* the number n/d (d # 0) in lowest terms with a positive denominator
Num(n, d) ==
    LET g == GCD(Abs(n), Abs(d))
        s == IF d < 0 THEN -1 ELSE 1
    IN  [t |-> "num", n |-> (s * n) \div g, d |-> (s * d) \div g]

PyInt(i) == Num(i, 1)

IsNum(v) == v.t = "num"

\* the three callables of the evaluation scope
Builtin(name) == [t |-> "fn", f |-> name]

\* a string literal of a formula
Str(s) == [t |-> "str", s |-> s]

\* the outcome of a Python call: a value, or an exception on its way up
Return(v) == [raised |-> FALSE, value |-> v]
\* str(e) of an exception e is e.msg
Raise(type, msg) == [raised |-> TRUE, exc |-> [type |-> type, msg |-> msg]]

----------------------------------------------------------------------------
(* Python str operations *)

Letters ==
    {"a","b","c","d","e","f","g","h","i","j","k","l","m",
     "n","o","p","q","r","s","t","u","v","w","x","y","z",
     "A","B","C","D","E","F","G","H","I","J","K","L","M",
     "N","O","P","Q","R","S","T","U","V","W","X","Y","Z"}

Digits == {"0","1","2","3","4","5","6","7","8","9"}

DigitValue(c) ==
    CASE c = "0" -> 0 [] c = "1" -> 1 [] c = "2" -> 2 [] c = "3" -> 3
      [] c = "4" -> 4 [] c = "5" -> 5 [] c = "6" -> 6 [] c = "7" -> 7
      [] c = "8" -> 8 [] c = "9" -> 9

\* s[i:] of Python, i counted from 1
Drop(s, i) == SubSeq(s, i, Len(s))

\* s.startswith(p, i - 1): p occurs in s at position i
OccursAt(s, p, i) ==
    /\ i + Len(p) - 1 <= Len(s)
    /\ SubSeq(s, i, i + Len(p) - 1) = p

\* s.endswith(suffix)
endswith(s, suffix) ==
    /\ Len(suffix) <= Len(s)
    /\ SubSeq(s, Len(s) - Len(suffix) + 1, Len(s)) = suffix

\* s.replace(old, new) for a non-empty old: every non-overlapping occurrence,
\* leftmost first
RECURSIVE replace(_, _, _)
replace(s, old, new) ==
    IF Len(s) < Len(old) THEN s
    ELSE IF OccursAt(s, old, 1)
         THEN new \o replace(Drop(s, Len(old) + 1), old, new)
         ELSE <<s[1]>> \o replace(Tail(s), old, new)

\* the set of the items of a Python list
Range(seq) == {seq[i] : i \in 1..Len(seq)}

----------------------------------------------------------------------------
(* Python's eval(source, globals, locals), for the expressions of the       *)
(* registry: names, integer and string literals, unary and binary + - * /,  *)
(* parentheses and calls.  Any other token ('.', '&', ...) and a tuple are  *)
(* rejected as a syntax error; in the registry those characters occur only  *)
(* inside input names, which calc rewrites before eval or passes through    *)
(* without eval.                                                            *)

NameStart == Letters \cup {"_"}
NameChar == NameStart \cup Digits
OpChars == {"+", "-", "*", "/", "(", ")", ","}

\* the length of the longest prefix of s made of characters of cs
RECURSIVE Span(_, _)
Span(s, cs) ==
    IF s = <<>> \/ s[1] \notin cs THEN 0 ELSE 1 + Span(Tail(s), cs)

RECURSIVE DecimalValue(_, _)
DecimalValue(s, acc) ==
    IF s = <<>> THEN acc
    ELSE DecimalValue(Tail(s), 10 * acc + DigitValue(s[1]))

\* the first position of character c in s, or 0
RECURSIVE IndexOf(_, _, _)
IndexOf(s, c, i) ==
    IF i > Len(s) THEN 0 ELSE IF s[i] = c THEN i ELSE IndexOf(s, c, i + 1)

Token(k, v) == [k |-> k, v |-> v]

\* the token stream of a source text; a "bad" token is a lexical error
RECURSIVE Tokenize(_)
Tokenize(s) ==
    IF s = <<>> THEN <<>>
    ELSE LET c == s[1] IN
         IF c = " " THEN Tokenize(Tail(s))
         ELSE IF c \in NameStart THEN
             LET n == Span(s, NameChar)
             IN  <<Token("name", SubSeq(s, 1, n))>> \o Tokenize(Drop(s, n + 1))
         ELSE IF c \in Digits THEN
             LET n == Span(s, Digits)
                 rest == Drop(s, n + 1)
             IN  IF rest # <<>> /\ rest[1] \in NameStart
                 THEN <<Token("bad", "invalid decimal literal")>>
                 ELSE <<Token("num", DecimalValue(SubSeq(s, 1, n), 0))>>
                          \o Tokenize(rest)
         ELSE IF c = "'" THEN
             LET q == IndexOf(s, "'", 2)
             IN  IF q = 0
                 THEN <<Token("bad", "unterminated string literal")>>
                 ELSE <<Token("str", SubSeq(s, 2, q - 1))>>
                          \o Tokenize(Drop(s, q + 1))
         ELSE IF c \in OpChars THEN <<Token("op", c)>> \o Tokenize(Tail(s))
         ELSE <<Token("bad", c)>>

IsOp(toks, ops) == toks # <<>> /\ toks[1].k = "op" /\ toks[1].v \in ops

Parsed(node) == [ok |-> TRUE, node |-> node]
SyntaxError == [ok |-> FALSE]

\* The parser keeps a stack of finished subtrees and a stack of pending
\* operators and brackets (top last).  Precedence: binary + - (1), binary * /
\* (2), unary + - (3); binary operators associate to the left.
Binary(f) == [k |-> "bin", f |-> f, p |-> IF f \in {"*", "/"} THEN 2 ELSE 1]
Unary(f) == [k |-> "unary", f |-> f, p |-> 3]
Group == [k |-> "group"]
Call(argc) == [k |-> "call", argc |-> argc]

Top(stack) == stack[Len(stack)]
Pop(stack, n) == SubSeq(stack, 1, Len(stack) - n)

\* build the subtrees of the pending operators of precedence >= minPrec
RECURSIVE Reduce(_, _, _)
Reduce(nodes, ops, minPrec) ==
    IF ops = <<>> \/ Top(ops).k \in {"group", "call"} \/ Top(ops).p < minPrec
    THEN [nodes |-> nodes, ops |-> ops]
    ELSE IF Top(ops).k = "unary"
    THEN Reduce(Append(Pop(nodes, 1),
                       [op |-> "unary", f |-> Top(ops).f, e |-> Top(nodes)]),
                Pop(ops, 1), minPrec)
    ELSE Reduce(Append(Pop(nodes, 2),
                       [op |-> "bin", f |-> Top(ops).f,
                        l |-> nodes[Len(nodes) - 1], r |-> Top(nodes)]),
                Pop(ops, 1), minPrec)

\* the node stack after the call whose n arguments are on top of its function
CloseCall(nodes, n) ==
    Append(Pop(nodes, n + 1),
           [op |-> "call", fn |-> nodes[Len(nodes) - n],
            args |-> SubSeq(nodes, Len(nodes) - n + 1, Len(nodes))])

\* expression: operands (NAME, NUMBER, STRING, a parenthesised expression,
\* a call f(a, ...)) joined by + - * / and prefixed by + -.  `operand' tells
\* whether an operand or an operator must come next.
RECURSIVE Parse(_, _, _, _)
Parse(toks, nodes, ops, operand) ==
    IF toks = <<>> THEN
        IF operand THEN SyntaxError
        ELSE LET r == Reduce(nodes, ops, 0)
             IN  IF r.ops = <<>> THEN Parsed(r.nodes[1]) ELSE SyntaxError
    ELSE IF operand THEN
        IF toks[1].k = "name"
        THEN Parse(Tail(toks), Append(nodes, [op |-> "name", id |-> toks[1].v]),
                   ops, FALSE)
        ELSE IF toks[1].k = "num"
        THEN Parse(Tail(toks), Append(nodes, [op |-> "num", v |-> toks[1].v]),
                   ops, FALSE)
        ELSE IF toks[1].k = "str"
        THEN Parse(Tail(toks), Append(nodes, [op |-> "str", s |-> toks[1].v]),
                   ops, FALSE)
        ELSE IF IsOp(toks, {"+", "-"})
        THEN Parse(Tail(toks), nodes, Append(ops, Unary(toks[1].v)), TRUE)
        ELSE IF IsOp(toks, {"("})
        THEN Parse(Tail(toks), nodes, Append(ops, Group), TRUE)
        ELSE IF IsOp(toks, {")"}) /\ ops # <<>> /\ Top(ops).k = "call"
        THEN \* f() or f(a, b,)
             Parse(Tail(toks), CloseCall(nodes, Top(ops).argc), Pop(ops, 1), FALSE)
        ELSE SyntaxError
    ELSE
        IF IsOp(toks, {"+", "-", "*", "/"})
        THEN LET r == Reduce(nodes, ops, Binary(toks[1].v).p)
             IN  Parse(Tail(toks), r.nodes, Append(r.ops, Binary(toks[1].v)), TRUE)
        ELSE IF IsOp(toks, {"("})
        THEN Parse(Tail(toks), nodes, Append(ops, Call(0)), TRUE)
        ELSE IF IsOp(toks, {",", ")"})
        THEN LET r == Reduce(nodes, ops, 0)
             IN  IF r.ops = <<>> THEN SyntaxError
                 ELSE IF toks[1].v = ")" /\ Top(r.ops).k = "group"
                 THEN Parse(Tail(toks), r.nodes, Pop(r.ops, 1), FALSE)
                 ELSE IF toks[1].v = ")"
                 THEN Parse(Tail(toks), CloseCall(r.nodes, Top(r.ops).argc + 1),
                            Pop(r.ops, 1), FALSE)
                 ELSE IF Top(r.ops).k = "call"
                 THEN Parse(Tail(toks), r.nodes,
                            Append(Pop(r.ops, 1), Call(Top(r.ops).argc + 1)), TRUE)
                 ELSE SyntaxError
        ELSE SyntaxError

\* compile(source, '<string>', 'eval'): the expression tree, or a syntax error
Compile(source) ==
    LET toks == Tokenize(source)
    IN  IF \E i \in 1..Len(toks) : toks[i].k = "bad" THEN SyntaxError
        ELSE Parse(toks, <<>>, <<>>, TRUE)

TypeError == Raise("TypeError", <<"unsupported operand or argument">>)

\* a < b on numbers
Less(a, b) == a.n * b.d < b.n * a.d

IsStr(v) == v.t = "str"

\* s * n for a str s and an int n: n copies of s, the empty str for n <= 0
RECURSIVE Repeat(_, _)
Repeat(s, n) == IF n <= 0 THEN <<>> ELSE s \o Repeat(s, n - 1)

\* a op b on Python values: arithmetic on two numbers, str + str, and
\* str * int either way round; every other pairing is a TypeError.  A number
\* counts as an int when its denominator is 1: the quotient 4 / 2, a float
\* for Python, is not told apart from the int 2.  No registered formula
\* multiplies a quotient by an input, so that str * float is never reached.
BinOp(f, a, b) ==
    IF IsNum(a) /\ IsNum(b)
    THEN CASE f = "+" -> Return(Num(a.n * b.d + b.n * a.d, a.d * b.d))
           [] f = "-" -> Return(Num(a.n * b.d - b.n * a.d, a.d * b.d))
           [] f = "*" -> Return(Num(a.n * b.n, a.d * b.d))
           [] f = "/" -> IF b.n = 0
                         THEN Raise("ZeroDivisionError", <<"division by zero">>)
                         ELSE Return(Num(a.n * b.d, a.d * b.n))
    ELSE IF f = "+" /\ IsStr(a) /\ IsStr(b) THEN Return(Str(a.s \o b.s))
    ELSE IF f = "*" /\ IsStr(a) /\ IsNum(b) /\ b.d = 1
         THEN Return(Str(Repeat(a.s, b.n)))
    ELSE IF f = "*" /\ IsNum(a) /\ a.d = 1 /\ IsStr(b)
         THEN Return(Str(Repeat(b.s, a.n)))
    ELSE TypeError

\* min(...) or max(...) of a list of numbers: the first extreme item
RECURSIVE Extreme(_, _, _)
Extreme(f, best, rest) ==
    IF rest = <<>> THEN best
    ELSE LET x == rest[1]
             better == IF f = "min" THEN Less(x, best) ELSE Less(best, x)
         IN  Extreme(f, IF better THEN x ELSE best, Tail(rest))

\* fn(*args) for a value fn of the scope; abs, min and max are applied to
\* numbers only (min and max of strs, which Python orders, are a TypeError
\* here: no registered formula calls min or max)
Apply(fn, args) ==
    IF fn.t # "fn" THEN TypeError
    ELSE IF \E i \in 1..Len(args) : ~IsNum(args[i]) THEN TypeError
    ELSE IF fn.f = "abs"
         THEN IF Len(args) = 1
              THEN Return(Num(Abs(args[1].n), args[1].d))
              ELSE TypeError
         ELSE IF Len(args) >= 2
              THEN Return(Extreme(fn.f, args[1], Tail(args)))
              ELSE TypeError

RECURSIVE Evaluate(_, _, _), EvaluateArgs(_, _, _, _)

\* the value of an expression tree: names are looked up in locals, then in
\* globals; there are no builtins to fall back to, so an unbound name raises
\* (NameError, or TypeError where the interpreter subscripts the None bound to
\* __builtins__: calc wraps either one into the same ValueError)
Evaluate(node, globals, locals) ==
    CASE node.op = "num" -> Return(PyInt(node.v))
      [] node.op = "str" -> Return(Str(node.s))
      [] node.op = "name" ->
            IF node.id \in DOMAIN locals THEN Return(locals[node.id])
            ELSE IF node.id \in DOMAIN globals THEN Return(globals[node.id])
            ELSE Raise("NameError", <<"name is not defined">>)
      [] node.op = "unary" ->
            LET e == Evaluate(node.e, globals, locals)
            IN  IF e.raised THEN e
                ELSE IF ~IsNum(e.value) THEN TypeError
                ELSE IF node.f = "-"
                     THEN Return(Num(-e.value.n, e.value.d))
                     ELSE e
      [] node.op = "bin" ->
            LET l == Evaluate(node.l, globals, locals)
            IN  IF l.raised THEN l
                ELSE LET r == Evaluate(node.r, globals, locals)
                     IN  IF r.raised THEN r
                         ELSE BinOp(node.f, l.value, r.value)
      [] node.op = "call" ->
            LET fn == Evaluate(node.fn, globals, locals)
            IN  IF fn.raised THEN fn
                ELSE LET argv == EvaluateArgs(node.args, <<>>, globals, locals)
                     IN  IF argv.raised THEN argv
                         ELSE Apply(fn.value, argv.value)

EvaluateArgs(nodes, done, globals, locals) ==
    IF nodes = <<>> THEN Return(done)
    ELSE LET a == Evaluate(nodes[1], globals, locals)
         IN  IF a.raised THEN a
             ELSE EvaluateArgs(Tail(nodes), Append(done, a.value), globals, locals)

\* eval(source, globals, locals)
eval(source, globals, locals) ==
    LET p == Compile(source)
    IN  IF p.ok THEN Evaluate(p.node, globals, locals)
        ELSE Raise("SyntaxError", <<"invalid syntax">>)

----------------------------------------------------------------------------
(* The registry and the alias table *)

\* a dict literal: a later item with the same key replaces an earlier one
dict(items) ==
    [k \in {items[i][1] : i \in 1..Len(items)} |->
        items[CHOOSE i \in 1..Len(items) :
                 /\ items[i][1] = k
                 /\ \A j \in (i + 1)..Len(items) : items[j][1] # k][2]]

\* one entry of METRICS
metric(inputs, formula, desc) ==
    [inputs |-> inputs, formula |-> formula, desc |-> desc]

\* the items of the METRICS literal, in source order
METRICS_items == <<
    \* "revenue": {"inputs": ["is.NetRevenue"], "formula": "is.NetRevenue"}
    <<<<"r","e","v","e","n","u","e">>,
      metric(<<<<"i","s",".","N","e","t","R","e","v","e","n","u","e">>>>,
             <<"i","s",".","N","e","t","R","e","v","e","n","u","e">>,
             <<"T","o","t","a","l"," ","t","o","p","-","l","i","n","e"," ",
               "s","a","l","e","s">>)>>,
    \* "cogs": {"inputs": ["is.CostOfRevenue"], "formula": "is.CostOfRevenue"}
    <<<<"c","o","g","s">>,
      metric(<<<<"i","s",".","C","o","s","t","O","f","R","e","v","e","n","u","e">>>>,
             <<"i","s",".","C","o","s","t","O","f","R","e","v","e","n","u","e">>,
             <<"C","o","s","t"," ","o","f"," ","g","o","o","d","s"," ","/",
               " ","s","e","r","v","i","c","e","s">>)>>,
    \* "gross_profit": {"inputs": ["revenue", "cogs"], "formula": "revenue - cogs"}
    <<<<"g","r","o","s","s","_","p","r","o","f","i","t">>,
      metric(<<<<"r","e","v","e","n","u","e">>,
               <<"c","o","g","s">>>>,
             <<"r","e","v","e","n","u","e"," ","-"," ","c","o","g","s">>,
             <<"R","e","v","e","n","u","e"," ","m","i","n","u","s"," ","C",
               "O","G","S">>)>>,
    \* "rnd": {"inputs": ["is.RD"], "formula": "is.RD"}
    <<<<"r","n","d">>,
      metric(<<<<"i","s",".","R","D">>>>,
             <<"i","s",".","R","D">>,
             <<"R","e","s","e","a","r","c","h"," ","&"," ","d","e","v","e",
               "l","o","p","m","e","n","t"," ","e","x","p",".">>)>>,
    \* "sga": {"inputs": ["is.SG&A"], "formula": "is.SG&A"}
    <<<<"s","g","a">>,
      metric(<<<<"i","s",".","S","G","&","A">>>>,
             <<"i","s",".","S","G","&","A">>,
             <<"S","e","l","l","i","n","g",","," ","g","e","n","e","r","a",
               "l"," ","&"," ","a","d","m","i","n">>)>>,
    \* "operating_income": {"inputs": ["is.OperatingIncome"], "formula": "is.OperatingIncome"}
    <<<<"o","p","e","r","a","t","i","n","g","_","i","n","c","o","m","e">>,
      metric(<<<<"i","s",".","O","p","e","r","a","t","i","n","g","I","n","c","o","m","e">>>>,
             <<"i","s",".","O","p","e","r","a","t","i","n","g","I","n","c","o","m","e">>,
             <<"E","B","I","T",";"," ","i","n","c","o","m","e"," ","f","r",
               "o","m"," ","o","p","e","r","a","t","i","o","n","s">>)>>,
    \* "ebit": {"inputs": ["operating_income"], "formula": "operating_income"}
    <<<<"e","b","i","t">>,
      metric(<<<<"o","p","e","r","a","t","i","n","g","_","i","n","c","o","m","e">>>>,
             <<"o","p","e","r","a","t","i","n","g","_","i","n","c","o","m","e">>,
             <<"S","y","n","o","n","y","m"," ","f","o","r"," ","o","p","e",
               "r","a","t","i","n","g"," ","i","n","c","o","m","e">>)>>,
    \* "interest_expense": {"inputs": ["is.InterestExpense"], "formula": "is.InterestExpense"}
    <<<<"i","n","t","e","r","e","s","t","_","e","x","p","e","n","s","e">>,
      metric(<<<<"i","s",".","I","n","t","e","r","e","s","t","E","x","p","e","n","s","e">>>>,
             <<"i","s",".","I","n","t","e","r","e","s","t","E","x","p","e","n","s","e">>,
             <<"N","e","t"," ","i","n","t","e","r","e","s","t"," ","c","o",
               "s","t">>)>>,
    \* "ebt": {"inputs": ["is.IncomeBeforeTax"], "formula": "is.IncomeBeforeTax"}
    <<<<"e","b","t">>,
      metric(<<<<"i","s",".","I","n","c","o","m","e","B","e","f","o","r","e","T","a","x">>>>,
             <<"i","s",".","I","n","c","o","m","e","B","e","f","o","r","e","T","a","x">>,
             <<"E","a","r","n","i","n","g","s"," ","b","e","f","o","r","e",
               " ","t","a","x">>)>>,
    \* "tax_expense": {"inputs": ["is.IncomeTax"], "formula": "is.IncomeTax"}
    <<<<"t","a","x","_","e","x","p","e","n","s","e">>,
      metric(<<<<"i","s",".","I","n","c","o","m","e","T","a","x">>>>,
             <<"i","s",".","I","n","c","o","m","e","T","a","x">>,
             <<"P","r","o","v","i","s","i","o","n"," ","f","o","r"," ","i",
               "n","c","o","m","e"," ","t","a","x","e","s">>)>>,
    \* "net_income": {"inputs": ["is.NetIncome"], "formula": "is.NetIncome"}
    <<<<"n","e","t","_","i","n","c","o","m","e">>,
      metric(<<<<"i","s",".","N","e","t","I","n","c","o","m","e">>>>,
             <<"i","s",".","N","e","t","I","n","c","o","m","e">>,
             <<"B","o","t","t","o","m","-","l","i","n","e"," ","p","r","o",
               "f","i","t">>)>>,
    \* "eps_basic": {"inputs": ["is.EPSBasic"], "formula": "is.EPSBasic"}
    <<<<"e","p","s","_","b","a","s","i","c">>,
      metric(<<<<"i","s",".","E","P","S","B","a","s","i","c">>>>,
             <<"i","s",".","E","P","S","B","a","s","i","c">>,
             <<"E","a","r","n","i","n","g","s"," ","p","e","r"," ","s","h",
               "a","r","e",","," ","b","a","s","i","c">>)>>,
    \* "eps_diluted": {"inputs": ["is.EPSDiluted"], "formula": "is.EPSDiluted"}
    <<<<"e","p","s","_","d","i","l","u","t","e","d">>,
      metric(<<<<"i","s",".","E","P","S","D","i","l","u","t","e","d">>>>,
             <<"i","s",".","E","P","S","D","i","l","u","t","e","d">>,
             <<"E","a","r","n","i","n","g","s"," ","p","e","r"," ","s","h",
               "a","r","e",","," ","d","i","l","u","t","e","d">>)>>,
    \* "cash": {"inputs": ["bs.CashAndEquivalents"], "formula": "bs.CashAndEquivalents"}
    <<<<"c","a","s","h">>,
      metric(<<<<"b","s",".","C","a","s","h","A","n","d","E","q","u","i","v","a","l","e","n","t","s">>>>,
             <<"b","s",".","C","a","s","h","A","n","d","E","q","u","i","v","a","l","e","n","t","s">>,
             <<"C","a","s","h"," ","&"," ","c","a","s","h"," ","e","q","u",
               "i","v","a","l","e","n","t","s">>)>>,
    \* "short_term_investments": {"inputs": ["bs.ShortTermInvestments"], "formula": "bs.ShortTermInvestments"}
    <<<<"s","h","o","r","t","_","t","e","r","m","_","i","n","v","e","s","t","m","e","n","t","s">>,
      metric(<<<<"b","s",".","S","h","o","r","t","T","e","r","m","I","n","v","e","s","t","m","e","n","t","s">>>>,
             <<"b","s",".","S","h","o","r","t","T","e","r","m","I","n","v","e","s","t","m","e","n","t","s">>,
             <<"M","a","r","k","e","t","a","b","l","e"," ","s","e","c","u",
               "r","i","t","i","e","s">>)>>,
    \* "accounts_receivable": {"inputs": ["bs.AccountsReceivable"], "formula": "bs.AccountsReceivable"}
    <<<<"a","c","c","o","u","n","t","s","_","r","e","c","e","i","v","a","b","l","e">>,
      metric(<<<<"b","s",".","A","c","c","o","u","n","t","s","R","e","c","e","i","v","a","b","l","e">>>>,
             <<"b","s",".","A","c","c","o","u","n","t","s","R","e","c","e","i","v","a","b","l","e">>,
             <<"T","r","a","d","e"," ","r","e","c","e","i","v","a","b","l",
               "e","s">>)>>,
    \* "inventory": {"inputs": ["bs.Inventory"], "formula": "bs.Inventory"}
    <<<<"i","n","v","e","n","t","o","r","y">>,
      metric(<<<<"b","s",".","I","n","v","e","n","t","o","r","y">>>>,
             <<"b","s",".","I","n","v","e","n","t","o","r","y">>,
             <<"I","n","v","e","n","t","o","r","i","e","s">>)>>,
    \* "current_assets": {"inputs": ["bs.TotalCurrentAssets"], "formula": "bs.TotalCurrentAssets"}
    <<<<"c","u","r","r","e","n","t","_","a","s","s","e","t","s">>,
      metric(<<<<"b","s",".","T","o","t","a","l","C","u","r","r","e","n","t","A","s","s","e","t","s">>>>,
             <<"b","s",".","T","o","t","a","l","C","u","r","r","e","n","t","A","s","s","e","t","s">>,
             <<"T","o","t","a","l"," ","c","u","r","r","e","n","t"," ","a",
               "s","s","e","t","s">>)>>,
    \* "pp&e": {"inputs": ["bs.PP&E"], "formula": "bs.PP&E"}
    <<<<"p","p","&","e">>,
      metric(<<<<"b","s",".","P","P","&","E">>>>,
             <<"b","s",".","P","P","&","E">>,
             <<"P","r","o","p","e","r","t","y",","," ","p","l","a","n","t",
               " ","&"," ","e","q","u","i","p","m","e","n","t">>)>>,
    \* "goodwill": {"inputs": ["bs.Goodwill"], "formula": "bs.Goodwill"}
    <<<<"g","o","o","d","w","i","l","l">>,
      metric(<<<<"b","s",".","G","o","o","d","w","i","l","l">>>>,
             <<"b","s",".","G","o","o","d","w","i","l","l">>,
             <<"G","o","o","d","w","i","l","l"," ","i","n","t","a","n","g",
               "i","b","l","e">>)>>,
    \* "total_assets": {"inputs": ["bs.TotalAssets"], "formula": "bs.TotalAssets"}
    <<<<"t","o","t","a","l","_","a","s","s","e","t","s">>,
      metric(<<<<"b","s",".","T","o","t","a","l","A","s","s","e","t","s">>>>,
             <<"b","s",".","T","o","t","a","l","A","s","s","e","t","s">>,
             <<"S","u","m"," ","o","f"," ","a","s","s","e","t","s">>)>>,
    \* "accounts_payable": {"inputs": ["bs.AccountsPayable"], "formula": "bs.AccountsPayable"}
    <<<<"a","c","c","o","u","n","t","s","_","p","a","y","a","b","l","e">>,
      metric(<<<<"b","s",".","A","c","c","o","u","n","t","s","P","a","y","a","b","l","e">>>>,
             <<"b","s",".","A","c","c","o","u","n","t","s","P","a","y","a","b","l","e">>,
             <<"T","r","a","d","e"," ","a","c","c","o","u","n","t","s"," ",
               "p","a","y","a","b","l","e">>)>>,
    \* "deferred_revenue": {"inputs": ["bs.DeferredRevenue"], "formula": "bs.DeferredRevenue"}
    <<<<"d","e","f","e","r","r","e","d","_","r","e","v","e","n","u","e">>,
      metric(<<<<"b","s",".","D","e","f","e","r","r","e","d","R","e","v","e","n","u","e">>>>,
             <<"b","s",".","D","e","f","e","r","r","e","d","R","e","v","e","n","u","e">>,
             <<"C","o","n","t","r","a","c","t"," ","l","i","a","b","i","l",
               "i","t","i","e","s">>)>>,
    \* "current_liabilities": {"inputs": ["bs.TotalCurrentLiabilities"], "formula": "bs.TotalCurrentLiabilities"}
    <<<<"c","u","r","r","e","n","t","_","l","i","a","b","i","l","i","t","i","e","s">>,
      metric(<<<<"b","s",".","T","o","t","a","l","C","u","r","r","e","n","t","L","i","a","b","i","l","i","t","i","e","s">>>>,
             <<"b","s",".","T","o","t","a","l","C","u","r","r","e","n","t","L","i","a","b","i","l","i","t","i","e","s">>,
             <<"D","u","e"," ","w","i","t","h","i","n"," ","1","2"," ","m",
               "o",".">>)>>,
    \* "long_term_debt": {"inputs": ["bs.LongTermDebt"], "formula": "bs.LongTermDebt"}
    <<<<"l","o","n","g","_","t","e","r","m","_","d","e","b","t">>,
      metric(<<<<"b","s",".","L","o","n","g","T","e","r","m","D","e","b","t">>>>,
             <<"b","s",".","L","o","n","g","T","e","r","m","D","e","b","t">>,
             <<"B","o","r","r","o","w","i","n","g","s"," ",">","1"," ","y",
               "e","a","r">>)>>,
    \* "total_liabilities": {"inputs": ["bs.TotalLiabilities"], "formula": "bs.TotalLiabilities"}
    <<<<"t","o","t","a","l","_","l","i","a","b","i","l","i","t","i","e","s">>,
      metric(<<<<"b","s",".","T","o","t","a","l","L","i","a","b","i","l","i","t","i","e","s">>>>,
             <<"b","s",".","T","o","t","a","l","L","i","a","b","i","l","i","t","i","e","s">>,
             <<"A","l","l"," ","l","i","a","b","i","l","i","t","i","e","s">>)>>,
    \* "shareholders_equity": {"inputs": ["bs.TotalEquity"], "formula": "bs.TotalEquity"}
    <<<<"s","h","a","r","e","h","o","l","d","e","r","s","_","e","q","u","i","t","y">>,
      metric(<<<<"b","s",".","T","o","t","a","l","E","q","u","i","t","y">>>>,
             <<"b","s",".","T","o","t","a","l","E","q","u","i","t","y">>,
             <<"B","o","o","k"," ","v","a","l","u","e"," ","o","f"," ","e",
               "q","u","i","t","y">>)>>,
    \* "cfo": {"inputs": ["cf.CashFromOperations"], "formula": "cf.CashFromOperations"}
    <<<<"c","f","o">>,
      metric(<<<<"c","f",".","C","a","s","h","F","r","o","m","O","p","e","r","a","t","i","o","n","s">>>>,
             <<"c","f",".","C","a","s","h","F","r","o","m","O","p","e","r","a","t","i","o","n","s">>,
             <<"N","e","t"," ","c","a","s","h"," ","f","r","o","m"," ","o",
               "p","s">>)>>,
    \* "capex": {"inputs": ["cf.CapEx"], "formula": "cf.CapEx"}
    <<<<"c","a","p","e","x">>,
      metric(<<<<"c","f",".","C","a","p","E","x">>>>,
             <<"c","f",".","C","a","p","E","x">>,
             <<"C","a","p","i","t","a","l"," ","e","x","p","e","n","d","i",
               "t","u","r","e","s">>)>>,
    \* "free_cash_flow": {"inputs": ["cfo", "capex"], "formula": "cfo - capex"}
    <<<<"f","r","e","e","_","c","a","s","h","_","f","l","o","w">>,
      metric(<<<<"c","f","o">>,
               <<"c","a","p","e","x">>>>,
             <<"c","f","o"," ","-"," ","c","a","p","e","x">>,
             <<"C","F","O"," ","m","i","n","u","s"," ","c","a","p","e","x">>)>>,
    \* "cff": {"inputs": ["cf.CashFromFinancing"], "formula": "cf.CashFromFinancing"}
    <<<<"c","f","f">>,
      metric(<<<<"c","f",".","C","a","s","h","F","r","o","m","F","i","n","a","n","c","i","n","g">>>>,
             <<"c","f",".","C","a","s","h","F","r","o","m","F","i","n","a","n","c","i","n","g">>,
             <<"C","a","s","h"," ","f","r","o","m"," ","f","i","n","a","n",
               "c","i","n","g">>)>>,
    \* "cfi": {"inputs": ["cf.CashFromInvesting"], "formula": "cf.CashFromInvesting"}
    <<<<"c","f","i">>,
      metric(<<<<"c","f",".","C","a","s","h","F","r","o","m","I","n","v","e","s","t","i","n","g">>>>,
             <<"c","f",".","C","a","s","h","F","r","o","m","I","n","v","e","s","t","i","n","g">>,
             <<"C","a","s","h"," ","f","r","o","m"," ","i","n","v","e","s",
               "t","i","n","g">>)>>,
    \* "gross_margin_pct": {"inputs": ["gross_profit", "revenue"], "formula": "gross_profit / revenue"}
    <<<<"g","r","o","s","s","_","m","a","r","g","i","n","_","p","c","t">>,
      metric(<<<<"g","r","o","s","s","_","p","r","o","f","i","t">>,
               <<"r","e","v","e","n","u","e">>>>,
             <<"g","r","o","s","s","_","p","r","o","f","i","t"," ","/"," ","r","e","v","e","n","u","e">>,
             <<"G","r","o","s","s"," ","p","r","o","f","i","t"," ","/"," ",
               "r","e","v","e","n","u","e">>)>>,
    \* "operating_margin_pct": {"inputs": ["operating_income", "revenue"], "formula": "operating_income / revenue"}
    <<<<"o","p","e","r","a","t","i","n","g","_","m","a","r","g","i","n","_","p","c","t">>,
      metric(<<<<"o","p","e","r","a","t","i","n","g","_","i","n","c","o","m","e">>,
               <<"r","e","v","e","n","u","e">>>>,
             <<"o","p","e","r","a","t","i","n","g","_","i","n","c","o","m","e"," ","/"," ","r","e","v","e","n","u","e">>,
             <<"E","B","I","T"," ","m","a","r","g","i","n">>)>>,
    \* "net_margin_pct": {"inputs": ["net_income", "revenue"], "formula": "net_income / revenue"}
    <<<<"n","e","t","_","m","a","r","g","i","n","_","p","c","t">>,
      metric(<<<<"n","e","t","_","i","n","c","o","m","e">>,
               <<"r","e","v","e","n","u","e">>>>,
             <<"n","e","t","_","i","n","c","o","m","e"," ","/"," ","r","e","v","e","n","u","e">>,
             <<"N","e","t"," ","p","r","o","f","i","t"," ","m","a","r","g",
               "i","n">>)>>,
    \* "rd_pct": {"inputs": ["rnd", "revenue"], "formula": "rnd / revenue"}
    <<<<"r","d","_","p","c","t">>,
      metric(<<<<"r","n","d">>,
               <<"r","e","v","e","n","u","e">>>>,
             <<"r","n","d"," ","/"," ","r","e","v","e","n","u","e">>,
             <<"R","&","D"," ","a","s"," ","%"," ","o","f"," ","s","a","l",
               "e","s">>)>>,
    \* "sga_pct": {"inputs": ["sga", "revenue"], "formula": "sga / revenue"}
    <<<<"s","g","a","_","p","c","t">>,
      metric(<<<<"s","g","a">>,
               <<"r","e","v","e","n","u","e">>>>,
             <<"s","g","a"," ","/"," ","r","e","v","e","n","u","e">>,
             <<"S","G","&","A"," ","a","s"," ","%"," ","o","f"," ","s","a",
               "l","e","s">>)>>,
    \* "fcf_margin_pct": {"inputs": ["free_cash_flow", "revenue"], "formula": "free_cash_flow / revenue"}
    <<<<"f","c","f","_","m","a","r","g","i","n","_","p","c","t">>,
      metric(<<<<"f","r","e","e","_","c","a","s","h","_","f","l","o","w">>,
               <<"r","e","v","e","n","u","e">>>>,
             <<"f","r","e","e","_","c","a","s","h","_","f","l","o","w"," ","/"," ","r","e","v","e","n","u","e">>,
             <<"F","C","F"," ","m","a","r","g","i","n">>)>>,
    \* "ebitda": {"inputs": ["operating_income", "is.D&A"], "formula": "operating_income + is.D&A"}
    <<<<"e","b","i","t","d","a">>,
      metric(<<<<"o","p","e","r","a","t","i","n","g","_","i","n","c","o","m","e">>,
               <<"i","s",".","D","&","A">>>>,
             <<"o","p","e","r","a","t","i","n","g","_","i","n","c","o","m","e"," ","+"," ","i","s",".","D","&","A">>,
             <<"E","B","I","T"," ","+"," ","d","e","p","r","e","c","i","a",
               "t","i","o","n"," ","&"," ","a","m","o","r","t",".">>)>>,
    \* "ebitda_margin_pct": {"inputs": ["ebitda", "revenue"], "formula": "ebitda / revenue"}
    <<<<"e","b","i","t","d","a","_","m","a","r","g","i","n","_","p","c","t">>,
      metric(<<<<"e","b","i","t","d","a">>,
               <<"r","e","v","e","n","u","e">>>>,
             <<"e","b","i","t","d","a"," ","/"," ","r","e","v","e","n","u","e">>,
             <<"E","B","I","T","D","A"," ","m","a","r","g","i","n">>)>>,
    \* "eps_growth_pct": {"inputs": ["eps_diluted_t", "eps_diluted_t-1"], "formula": "(eps_diluted_t/eps_diluted_t-1) - 1"}
    <<<<"e","p","s","_","g","r","o","w","t","h","_","p","c","t">>,
      metric(<<<<"e","p","s","_","d","i","l","u","t","e","d","_","t">>,
               <<"e","p","s","_","d","i","l","u","t","e","d","_","t","-","1">>>>,
             <<"(","e","p","s","_","d","i","l","u","t","e","d","_","t","/","e","p","s","_","d","i","l","u","t","e","d","_","t","-","1",")"," ","-"," ","1">>,
             <<"Y","o","Y"," ","E","P","S"," ","g","r","o","w","t","h">>)>>,
    \* "revenue_growth_pct": {"inputs": ["revenue_t", "revenue_t-1"], "formula": "(revenue_t/revenue_t-1) - 1"}
    <<<<"r","e","v","e","n","u","e","_","g","r","o","w","t","h","_","p","c","t">>,
      metric(<<<<"r","e","v","e","n","u","e","_","t">>,
               <<"r","e","v","e","n","u","e","_","t","-","1">>>>,
             <<"(","r","e","v","e","n","u","e","_","t","/","r","e","v","e","n","u","e","_","t","-","1",")"," ","-"," ","1">>,
             <<"Y","o","Y"," ","t","o","p","-","l","i","n","e"," ","g","r",
               "o","w","t","h">>)>>,
    \* "shares_out": {"inputs": ["is.WeightedAvgSharesDiluted"], "formula": "is.WeightedAvgSharesDiluted"}
    <<<<"s","h","a","r","e","s","_","o","u","t">>,
      metric(<<<<"i","s",".","W","e","i","g","h","t","e","d","A","v","g","S","h","a","r","e","s","D","i","l","u","t","e","d">>>>,
             <<"i","s",".","W","e","i","g","h","t","e","d","A","v","g","S","h","a","r","e","s","D","i","l","u","t","e","d">>,
             <<"D","i","l","u","t","e","d"," ","s","h","a","r","e"," ","c",
               "o","u","n","t">>)>>,
    \* "market_cap": {"inputs": ["price", "shares_out"], "formula": "price * shares_out"}
    <<<<"m","a","r","k","e","t","_","c","a","p">>,
      metric(<<<<"p","r","i","c","e">>,
               <<"s","h","a","r","e","s","_","o","u","t">>>>,
             <<"p","r","i","c","e"," ","*"," ","s","h","a","r","e","s","_","o","u","t">>,
             <<"P","r","i","c","e"," ","×"," ","d","i","l","u","t","e","d",
               " ","s","h","a","r","e","s">>)>>,
    \* "enterprise_value": {"inputs": ["market_cap", "total_liabilities", "cash"], "formula": "market_cap + total_liabilities - cash"}
    <<<<"e","n","t","e","r","p","r","i","s","e","_","v","a","l","u","e">>,
      metric(<<<<"m","a","r","k","e","t","_","c","a","p">>,
               <<"t","o","t","a","l","_","l","i","a","b","i","l","i","t","i","e","s">>,
               <<"c","a","s","h">>>>,
             <<"m","a","r","k","e","t","_","c","a","p"," ","+"," ","t","o","t","a","l","_","l","i","a","b","i","l","i","t","i","e","s"," ","-"," ","c","a","s","h">>,
             <<"E","V"," ","="," ","M","c","a","p"," ","+"," ","d","e","b",
               "t"," ","-"," ","c","a","s","h">>)>>,
    \* "ev_ebitda": {"inputs": ["enterprise_value", "ebitda"], "formula": "enterprise_value / ebitda"}
    <<<<"e","v","_","e","b","i","t","d","a">>,
      metric(<<<<"e","n","t","e","r","p","r","i","s","e","_","v","a","l","u","e">>,
               <<"e","b","i","t","d","a">>>>,
             <<"e","n","t","e","r","p","r","i","s","e","_","v","a","l","u","e"," ","/"," ","e","b","i","t","d","a">>,
             <<"E","V"," ","/"," ","E","B","I","T","D","A"," ","m","u","l",
               "t","i","p","l","e">>)>>,
    \* "price_sales": {"inputs": ["market_cap", "revenue"], "formula": "market_cap / revenue"}
    <<<<"p","r","i","c","e","_","s","a","l","e","s">>,
      metric(<<<<"m","a","r","k","e","t","_","c","a","p">>,
               <<"r","e","v","e","n","u","e">>>>,
             <<"m","a","r","k","e","t","_","c","a","p"," ","/"," ","r","e","v","e","n","u","e">>,
             <<"P","/","S"," ","r","a","t","i","o">>)>>,
    \* "price_earnings": {"inputs": ["price", "eps_diluted"], "formula": "price / eps_diluted"}
    <<<<"p","r","i","c","e","_","e","a","r","n","i","n","g","s">>,
      metric(<<<<"p","r","i","c","e">>,
               <<"e","p","s","_","d","i","l","u","t","e","d">>>>,
             <<"p","r","i","c","e"," ","/"," ","e","p","s","_","d","i","l","u","t","e","d">>,
             <<"T","r","a","i","l","i","n","g"," ","P","/","E">>)>>,
    \* "dividend_yield_pct": {"inputs": ["dividend_per_share", "price"], "formula": "dividend_per_share / price"}
    <<<<"d","i","v","i","d","e","n","d","_","y","i","e","l","d","_","p","c","t">>,
      metric(<<<<"d","i","v","i","d","e","n","d","_","p","e","r","_","s","h","a","r","e">>,
               <<"p","r","i","c","e">>>>,
             <<"d","i","v","i","d","e","n","d","_","p","e","r","_","s","h","a","r","e"," ","/"," ","p","r","i","c","e">>,
             <<"D","i","v","i","d","e","n","d","s"," ","/"," ","p","r","i",
               "c","e">>)>>,
    \* "roic_pct": {"inputs": ["nopat", "invested_capital"], "formula": "nopat / invested_capital"}
    <<<<"r","o","i","c","_","p","c","t">>,
      metric(<<<<"n","o","p","a","t">>,
               <<"i","n","v","e","s","t","e","d","_","c","a","p","i","t","a","l">>>>,
             <<"n","o","p","a","t"," ","/"," ","i","n","v","e","s","t","e","d","_","c","a","p","i","t","a","l">>,
             <<"R","e","t","u","r","n"," ","o","n"," ","i","n","v","e","s",
               "t","e","d"," ","c","a","p","i","t","a","l">>)>>,
    \* "roe_pct": {"inputs": ["net_income", "shareholders_equity"], "formula": "net_income / shareholders_equity"}
    <<<<"r","o","e","_","p","c","t">>,
      metric(<<<<"n","e","t","_","i","n","c","o","m","e">>,
               <<"s","h","a","r","e","h","o","l","d","e","r","s","_","e","q","u","i","t","y">>>>,
             <<"n","e","t","_","i","n","c","o","m","e"," ","/"," ","s","h","a","r","e","h","o","l","d","e","r","s","_","e","q","u","i","t","y">>,
             <<"R","e","t","u","r","n"," ","o","n"," ","e","q","u","i","t",
               "y">>)>>,
    \* "roa_pct": {"inputs": ["net_income", "total_assets"], "formula": "net_income / total_assets"}
    <<<<"r","o","a","_","p","c","t">>,
      metric(<<<<"n","e","t","_","i","n","c","o","m","e">>,
               <<"t","o","t","a","l","_","a","s","s","e","t","s">>>>,
             <<"n","e","t","_","i","n","c","o","m","e"," ","/"," ","t","o","t","a","l","_","a","s","s","e","t","s">>,
             <<"R","e","t","u","r","n"," ","o","n"," ","a","s","s","e","t",
               "s">>)>>,
    \* "current_ratio": {"inputs": ["current_assets", "current_liabilities"], "formula": "current_assets / current_liabilities"}
    <<<<"c","u","r","r","e","n","t","_","r","a","t","i","o">>,
      metric(<<<<"c","u","r","r","e","n","t","_","a","s","s","e","t","s">>,
               <<"c","u","r","r","e","n","t","_","l","i","a","b","i","l","i","t","i","e","s">>>>,
             <<"c","u","r","r","e","n","t","_","a","s","s","e","t","s"," ","/"," ","c","u","r","r","e","n","t","_","l","i","a","b","i","l","i","t","i","e","s">>,
             <<"L","i","q","u","i","d","i","t","y"," ","r","a","t","i","o">>)>>,
    \* "quick_ratio": {"inputs": ["cash", "short_term_investments", "accounts_receivable", "current_liabilities"], "formula": "(cash + short_term_investments + accounts_receivable) / current_liabilities"}
    <<<<"q","u","i","c","k","_","r","a","t","i","o">>,
      metric(<<<<"c","a","s","h">>,
               <<"s","h","o","r","t","_","t","e","r","m","_","i","n","v","e","s","t","m","e","n","t","s">>,
               <<"a","c","c","o","u","n","t","s","_","r","e","c","e","i","v","a","b","l","e">>,
               <<"c","u","r","r","e","n","t","_","l","i","a","b","i","l","i","t","i","e","s">>>>,
             <<"(","c","a","s","h"," ","+"," ","s","h","o","r","t","_","t","e","r","m","_","i","n","v","e","s","t","m","e","n","t","s"," ","+"," ","a","c","c","o","u","n","t","s","_","r","e","c","e","i","v","a","b","l","e",")"," ","/"," ","c","u","r","r","e","n","t","_","l","i","a","b","i","l","i","t","i","e","s">>,
             <<"A","c","i","d","-","t","e","s","t"," ","r","a","t","i","o">>)>>,
    \* "debt_equity": {"inputs": ["long_term_debt", "shareholders_equity"], "formula": "long_term_debt / shareholders_equity"}
    <<<<"d","e","b","t","_","e","q","u","i","t","y">>,
      metric(<<<<"l","o","n","g","_","t","e","r","m","_","d","e","b","t">>,
               <<"s","h","a","r","e","h","o","l","d","e","r","s","_","e","q","u","i","t","y">>>>,
             <<"l","o","n","g","_","t","e","r","m","_","d","e","b","t"," ","/"," ","s","h","a","r","e","h","o","l","d","e","r","s","_","e","q","u","i","t","y">>,
             <<"L","e","v","e","r","a","g","e"," ","r","a","t","i","o">>)>>,
    \* "debt_ebitda": {"inputs": ["long_term_debt", "ebitda"], "formula": "long_term_debt / ebitda"}
    <<<<"d","e","b","t","_","e","b","i","t","d","a">>,
      metric(<<<<"l","o","n","g","_","t","e","r","m","_","d","e","b","t">>,
               <<"e","b","i","t","d","a">>>>,
             <<"l","o","n","g","_","t","e","r","m","_","d","e","b","t"," ","/"," ","e","b","i","t","d","a">>,
             <<"D","e","b","t"," ","/"," ","E","B","I","T","D","A">>)>>,
    \* "interest_coverage": {"inputs": ["ebit", "interest_expense"], "formula": "ebit / abs(interest_expense)"}
    <<<<"i","n","t","e","r","e","s","t","_","c","o","v","e","r","a","g","e">>,
      metric(<<<<"e","b","i","t">>,
               <<"i","n","t","e","r","e","s","t","_","e","x","p","e","n","s","e">>>>,
             <<"e","b","i","t"," ","/"," ","a","b","s","(","i","n","t","e","r","e","s","t","_","e","x","p","e","n","s","e",")">>,
             <<"E","B","I","T"," ","/"," ","I","n","t","e","r","e","s","t">>)>>,
    \* "ocf_conversion_pct": {"inputs": ["cfo", "net_income"], "formula": "cfo / net_income"}
    <<<<"o","c","f","_","c","o","n","v","e","r","s","i","o","n","_","p","c","t">>,
      metric(<<<<"c","f","o">>,
               <<"n","e","t","_","i","n","c","o","m","e">>>>,
             <<"c","f","o"," ","/"," ","n","e","t","_","i","n","c","o","m","e">>,
             <<"C","a","s","h"," ","c","o","n","v","e","r","s","i","o","n",
               " ","(","o","p","s",")">>)>>,
    \* "capex_sales_pct": {"inputs": ["capex", "revenue"], "formula": "capex / revenue"}
    <<<<"c","a","p","e","x","_","s","a","l","e","s","_","p","c","t">>,
      metric(<<<<"c","a","p","e","x">>,
               <<"r","e","v","e","n","u","e">>>>,
             <<"c","a","p","e","x"," ","/"," ","r","e","v","e","n","u","e">>,
             <<"C","a","p","e","x"," ","i","n","t","e","n","s","i","t","y">>)>>,
    \* "dividend_payout_pct": {"inputs": ["dividend_per_share", "eps_diluted"], "formula": "dividend_per_share / eps_diluted"}
    <<<<"d","i","v","i","d","e","n","d","_","p","a","y","o","u","t","_","p","c","t">>,
      metric(<<<<"d","i","v","i","d","e","n","d","_","p","e","r","_","s","h","a","r","e">>,
               <<"e","p","s","_","d","i","l","u","t","e","d">>>>,
             <<"d","i","v","i","d","e","n","d","_","p","e","r","_","s","h","a","r","e"," ","/"," ","e","p","s","_","d","i","l","u","t","e","d">>,
             <<"P","a","y","o","u","t"," ","r","a","t","i","o">>)>>,
    \* "ev_sales": {"inputs": ["enterprise_value", "revenue"], "formula": "enterprise_value / revenue"}
    <<<<"e","v","_","s","a","l","e","s">>,
      metric(<<<<"e","n","t","e","r","p","r","i","s","e","_","v","a","l","u","e">>,
               <<"r","e","v","e","n","u","e">>>>,
             <<"e","n","t","e","r","p","r","i","s","e","_","v","a","l","u","e"," ","/"," ","r","e","v","e","n","u","e">>,
             <<"E","V"," ","/"," ","S","a","l","e","s">>)>>,
    \* "ev_ebit": {"inputs": ["enterprise_value", "ebit"], "formula": "enterprise_value / ebit"}
    <<<<"e","v","_","e","b","i","t">>,
      metric(<<<<"e","n","t","e","r","p","r","i","s","e","_","v","a","l","u","e">>,
               <<"e","b","i","t">>>>,
             <<"e","n","t","e","r","p","r","i","s","e","_","v","a","l","u","e"," ","/"," ","e","b","i","t">>,
             <<"E","V"," ","/"," ","E","B","I","T">>)>>,
    \* "fcf_yield_pct": {"inputs": ["free_cash_flow", "market_cap"], "formula": "free_cash_flow / market_cap"}
    <<<<"f","c","f","_","y","i","e","l","d","_","p","c","t">>,
      metric(<<<<"f","r","e","e","_","c","a","s","h","_","f","l","o","w">>,
               <<"m","a","r","k","e","t","_","c","a","p">>>>,
             <<"f","r","e","e","_","c","a","s","h","_","f","l","o","w"," ","/"," ","m","a","r","k","e","t","_","c","a","p">>,
             <<"F","C","F"," ","/"," ","m","a","r","k","e","t"," ","c","a",
               "p">>)>>,
    \* "rd_growth_pct": {"inputs": ["rnd_t", "rnd_t-1"], "formula": "(rnd_t/rnd_t-1) - 1"}
    <<<<"r","d","_","g","r","o","w","t","h","_","p","c","t">>,
      metric(<<<<"r","n","d","_","t">>,
               <<"r","n","d","_","t","-","1">>>>,
             <<"(","r","n","d","_","t","/","r","n","d","_","t","-","1",")"," ","-"," ","1">>,
             <<"Y","o","Y"," ","R","&","D"," ","g","r","o","w","t","h">>)>>,
    \* "capex_growth_pct": {"inputs": ["capex_t", "capex_t-1"], "formula": "(capex_t/capex_t-1) - 1"}
    <<<<"c","a","p","e","x","_","g","r","o","w","t","h","_","p","c","t">>,
      metric(<<<<"c","a","p","e","x","_","t">>,
               <<"c","a","p","e","x","_","t","-","1">>>>,
             <<"(","c","a","p","e","x","_","t","/","c","a","p","e","x","_","t","-","1",")"," ","-"," ","1">>,
             <<"Y","o","Y"," ","C","a","p","E","x"," ","g","r","o","w","t",
               "h">>)>>,
    \* "employees": {"inputs": ["10K.Employees"], "formula": "10K.Employees"}
    <<<<"e","m","p","l","o","y","e","e","s">>,
      metric(<<<<"1","0","K",".","E","m","p","l","o","y","e","e","s">>>>,
             <<"1","0","K",".","E","m","p","l","o","y","e","e","s">>,
             <<"F","u","l","l","-","t","i","m","e"," ","h","e","a","d","c",
               "o","u","n","t">>)>>,
    \* "revenue_per_employee": {"inputs": ["revenue", "employees"], "formula": "revenue / employees"}
    <<<<"r","e","v","e","n","u","e","_","p","e","r","_","e","m","p","l","o","y","e","e">>,
      metric(<<<<"r","e","v","e","n","u","e">>,
               <<"e","m","p","l","o","y","e","e","s">>>>,
             <<"r","e","v","e","n","u","e"," ","/"," ","e","m","p","l","o","y","e","e","s">>,
             <<"E","f","f","i","c","i","e","n","c","y"," ","m","e","t","r",
               "i","c">>)>>,
    \* "segment_revenue": {"inputs": ["segment_df"], "formula": "lookup(segment_df, 'SegmentName')"}
    <<<<"s","e","g","m","e","n","t","_","r","e","v","e","n","u","e">>,
      metric(<<<<"s","e","g","m","e","n","t","_","d","f">>>>,
             <<"l","o","o","k","u","p","(","s","e","g","m","e","n","t","_","d","f",","," ","'","S","e","g","m","e","n","t","N","a","m","e","'",")">>,
             <<"R","e","v","e","n","u","e"," ","f","o","r"," ","a"," ","s",
               "p","e","c","i","f","i","c"," ","s","e","g","m","e","n","t">>)>>,
    \* "geo_revenue": {"inputs": ["geo_df"], "formula": "lookup(geo_df, 'Region')"}
    <<<<"g","e","o","_","r","e","v","e","n","u","e">>,
      metric(<<<<"g","e","o","_","d","f">>>>,
             <<"l","o","o","k","u","p","(","g","e","o","_","d","f",","," ","'","R","e","g","i","o","n","'",")">>,
             <<"R","e","v","e","n","u","e"," ","f","o","r"," ","a"," ","s",
               "p","e","c","i","f","i","c"," ","r","e","g","i","o","n">>)>>,
    \* "total_return_1y_pct": {"inputs": ["price_t", "price_t-252"], "formula": "(price_t/price_t-252) - 1"}
    <<<<"t","o","t","a","l","_","r","e","t","u","r","n","_","1","y","_","p","c","t">>,
      metric(<<<<"p","r","i","c","e","_","t">>,
               <<"p","r","i","c","e","_","t","-","2","5","2">>>>,
             <<"(","p","r","i","c","e","_","t","/","p","r","i","c","e","_","t","-","2","5","2",")"," ","-"," ","1">>,
             <<"1","-","y","e","a","r"," ","p","r","i","c","e"," ","r","e",
               "t","u","r","n">>)>>,
    \* "beta_2y": {"inputs": ["daily_returns", "index_returns"], "formula": "regression_beta(daily_returns, index_returns)"}
    <<<<"b","e","t","a","_","2","y">>,
      metric(<<<<"d","a","i","l","y","_","r","e","t","u","r","n","s">>,
               <<"i","n","d","e","x","_","r","e","t","u","r","n","s">>>>,
             <<"r","e","g","r","e","s","s","i","o","n","_","b","e","t","a","(","d","a","i","l","y","_","r","e","t","u","r","n","s",","," ","i","n","d","e","x","_","r","e","t","u","r","n","s",")">>,
             <<"2","-","y","e","a","r"," ","b","e","t","a"," ","v","s"," ",
               "S","&","P"," ","5","0","0">>)>>,
    \* "volatility_30d": {"inputs": ["daily_returns_30d"], "formula": "std(daily_returns_30d) * sqrt(252)"}
    <<<<"v","o","l","a","t","i","l","i","t","y","_","3","0","d">>,
      metric(<<<<"d","a","i","l","y","_","r","e","t","u","r","n","s","_","3","0","d">>>>,
             <<"s","t","d","(","d","a","i","l","y","_","r","e","t","u","r","n","s","_","3","0","d",")"," ","*"," ","s","q","r","t","(","2","5","2",")">>,
             <<"3","0","-","d","a","y"," ","a","n","n","u","a","l","i","z",
               "e","d"," ","v","o","l">>)>>,
    \* "carbon_intensity": {"inputs": ["ghg_scope1", "revenue"], "formula": "ghg_scope1 / revenue"}
    <<<<"c","a","r","b","o","n","_","i","n","t","e","n","s","i","t","y">>,
      metric(<<<<"g","h","g","_","s","c","o","p","e","1">>,
               <<"r","e","v","e","n","u","e">>>>,
             <<"g","h","g","_","s","c","o","p","e","1"," ","/"," ","r","e","v","e","n","u","e">>,
             <<"t","C","O","₂","e"," ","/"," ","$"," ","r","e","v","e","n",
               "u","e">>)>>,
    \* "board_independence_pct": {"inputs": ["board_independent", "board_total"], "formula": "board_independent / board_total"}
    <<<<"b","o","a","r","d","_","i","n","d","e","p","e","n","d","e","n","c","e","_","p","c","t">>,
      metric(<<<<"b","o","a","r","d","_","i","n","d","e","p","e","n","d","e","n","t">>,
               <<"b","o","a","r","d","_","t","o","t","a","l">>>>,
             <<"b","o","a","r","d","_","i","n","d","e","p","e","n","d","e","n","t"," ","/"," ","b","o","a","r","d","_","t","o","t","a","l">>,
             <<"G","o","v","e","r","n","a","n","c","e"," ","m","e","t","r",
               "i","c">>)>>,
    \* "preferred_dividends": {"inputs": ["is.PreferredDividends"], "formula": "is.PreferredDividends"}
    <<<<"p","r","e","f","e","r","r","e","d","_","d","i","v","i","d","e","n","d","s">>,
      metric(<<<<"i","s",".","P","r","e","f","e","r","r","e","d","D","i","v","i","d","e","n","d","s">>>>,
             <<"i","s",".","P","r","e","f","e","r","r","e","d","D","i","v","i","d","e","n","d","s">>,
             <<"P","r","e","f","e","r","r","e","d"," ","p","a","y","o","u",
               "t","s">>)>>,
    \* "tangible_book_value": {"inputs": ["shareholders_equity", "goodwill"], "formula": "shareholders_equity - goodwill"}
    <<<<"t","a","n","g","i","b","l","e","_","b","o","o","k","_","v","a","l","u","e">>,
      metric(<<<<"s","h","a","r","e","h","o","l","d","e","r","s","_","e","q","u","i","t","y">>,
               <<"g","o","o","d","w","i","l","l">>>>,
             <<"s","h","a","r","e","h","o","l","d","e","r","s","_","e","q","u","i","t","y"," ","-"," ","g","o","o","d","w","i","l","l">>,
             <<"E","q","u","i","t","y"," ","l","e","s","s"," ","i","n","t",
               "a","n","g","i","b","l","e","s">>)>>,
    \* "price_book": {"inputs": ["price", "tangible_book_value_per_share"], "formula": "price / tangible_book_value_per_share"}
    <<<<"p","r","i","c","e","_","b","o","o","k">>,
      metric(<<<<"p","r","i","c","e">>,
               <<"t","a","n","g","i","b","l","e","_","b","o","o","k","_","v","a","l","u","e","_","p","e","r","_","s","h","a","r","e">>>>,
             <<"p","r","i","c","e"," ","/"," ","t","a","n","g","i","b","l","e","_","b","o","o","k","_","v","a","l","u","e","_","p","e","r","_","s","h","a","r","e">>,
             <<"P","/","B"," ","o","n"," ","t","a","n","g","i","b","l","e",
               " ","B","V">>)>>,
    \* "working_capital": {"inputs": ["current_assets", "current_liabilities"], "formula": "current_assets - current_liabilities"}
    <<<<"w","o","r","k","i","n","g","_","c","a","p","i","t","a","l">>,
      metric(<<<<"c","u","r","r","e","n","t","_","a","s","s","e","t","s">>,
               <<"c","u","r","r","e","n","t","_","l","i","a","b","i","l","i","t","i","e","s">>>>,
             <<"c","u","r","r","e","n","t","_","a","s","s","e","t","s"," ","-"," ","c","u","r","r","e","n","t","_","l","i","a","b","i","l","i","t","i","e","s">>,
             <<"O","p","e","r","a","t","i","o","n","a","l"," ","l","i","q",
               "u","i","d","i","t","y">>)>>,
    \* "days_sales_outstanding": {"inputs": ["accounts_receivable", "revenue"], "formula": "(accounts_receivable / revenue) * 365"}
    <<<<"d","a","y","s","_","s","a","l","e","s","_","o","u","t","s","t","a","n","d","i","n","g">>,
      metric(<<<<"a","c","c","o","u","n","t","s","_","r","e","c","e","i","v","a","b","l","e">>,
               <<"r","e","v","e","n","u","e">>>>,
             <<"(","a","c","c","o","u","n","t","s","_","r","e","c","e","i","v","a","b","l","e"," ","/"," ","r","e","v","e","n","u","e",")"," ","*"," ","3","6","5">>,
             <<"R","e","c","e","i","v","a","b","l","e","s"," ","/"," ","s",
               "a","l","e","s"," ","d","a","y","s">>)>>,
    \* "days_inventory": {"inputs": ["inventory", "cogs"], "formula": "(inventory / cogs) * 365"}
    <<<<"d","a","y","s","_","i","n","v","e","n","t","o","r","y">>,
      metric(<<<<"i","n","v","e","n","t","o","r","y">>,
               <<"c","o","g","s">>>>,
             <<"(","i","n","v","e","n","t","o","r","y"," ","/"," ","c","o","g","s",")"," ","*"," ","3","6","5">>,
             <<"I","n","v","e","n","t","o","r","y"," ","d","a","y","s">>)>>,
    \* "days_payables": {"inputs": ["accounts_payable", "cogs"], "formula": "(accounts_payable / cogs) * 365"}
    <<<<"d","a","y","s","_","p","a","y","a","b","l","e","s">>,
      metric(<<<<"a","c","c","o","u","n","t","s","_","p","a","y","a","b","l","e">>,
               <<"c","o","g","s">>>>,
             <<"(","a","c","c","o","u","n","t","s","_","p","a","y","a","b","l","e"," ","/"," ","c","o","g","s",")"," ","*"," ","3","6","5">>,
             <<"P","a","y","a","b","l","e","s"," ","d","a","y","s">>)>>,
    \* "cash_conversion_cycle": {"inputs": ["days_inventory", "days_sales_outstanding", "days_payables"], "formula": "days_inventory + days_sales_outstanding - days_payables"}
    <<<<"c","a","s","h","_","c","o","n","v","e","r","s","i","o","n","_","c","y","c","l","e">>,
      metric(<<<<"d","a","y","s","_","i","n","v","e","n","t","o","r","y">>,
               <<"d","a","y","s","_","s","a","l","e","s","_","o","u","t","s","t","a","n","d","i","n","g">>,
               <<"d","a","y","s","_","p","a","y","a","b","l","e","s">>>>,
             <<"d","a","y","s","_","i","n","v","e","n","t","o","r","y"," ","+"," ","d","a","y","s","_","s","a","l","e","s","_","o","u","t","s","t","a","n","d","i","n","g"," ","-"," ","d","a","y","s","_","p","a","y","a","b","l","e","s">>,
             <<"S","u","p","p","l","y","-","c","h","a","i","n"," ","c","a",
               "s","h"," ","c","y","c","l","e">>)>>,
    \* "interest_bearing_debt": {"inputs": ["long_term_debt", "bs.ShortTermDebt"], "formula": "long_term_debt + bs.ShortTermDebt"}
    <<<<"i","n","t","e","r","e","s","t","_","b","e","a","r","i","n","g","_","d","e","b","t">>,
      metric(<<<<"l","o","n","g","_","t","e","r","m","_","d","e","b","t">>,
               <<"b","s",".","S","h","o","r","t","T","e","r","m","D","e","b","t">>>>,
             <<"l","o","n","g","_","t","e","r","m","_","d","e","b","t"," ","+"," ","b","s",".","S","h","o","r","t","T","e","r","m","D","e","b","t">>,
             <<"A","l","l"," ","d","e","b","t"," ","o","b","l","i","g","a",
               "t","i","o","n","s">>)>>,
    \* "ltm_revenue": {"inputs": ["revenue_t", "revenue_t-1", "revenue_t-2", "revenue_t-3"], "formula": "sum(last_4_quarters)"}
    <<<<"l","t","m","_","r","e","v","e","n","u","e">>,
      metric(<<<<"r","e","v","e","n","u","e","_","t">>,
               <<"r","e","v","e","n","u","e","_","t","-","1">>,
               <<"r","e","v","e","n","u","e","_","t","-","2">>,
               <<"r","e","v","e","n","u","e","_","t","-","3">>>>,
             <<"s","u","m","(","l","a","s","t","_","4","_","q","u","a","r","t","e","r","s",")">>,
             <<"T","r","a","i","l","i","n","g","-","1","2","-","m","o","n",
               "t","h"," ","r","e","v","e","n","u","e">>)>>
    >>

METRICS == dict(METRICS_items)

\* the items of the METRIC_ALIASES literal, in source order
METRIC_ALIASES_items == <<
    \* "sales": "revenue"
    <<<<"s","a","l","e","s">>,
      <<"r","e","v","e","n","u","e">>>>,
    \* "top_line": "revenue"
    <<<<"t","o","p","_","l","i","n","e">>,
      <<"r","e","v","e","n","u","e">>>>,
    \* "profits": "net_income"
    <<<<"p","r","o","f","i","t","s">>,
      <<"n","e","t","_","i","n","c","o","m","e">>>>,
    \* "earnings": "net_income"
    <<<<"e","a","r","n","i","n","g","s">>,
      <<"n","e","t","_","i","n","c","o","m","e">>>>,
    \* "bottom_line": "net_income"
    <<<<"b","o","t","t","o","m","_","l","i","n","e">>,
      <<"n","e","t","_","i","n","c","o","m","e">>>>,
    \* "r&d": "rnd"
    <<<<"r","&","d">>,
      <<"r","n","d">>>>,
    \* "research_and_development": "rnd"
    <<<<"r","e","s","e","a","r","c","h","_","a","n","d","_","d","e","v","e","l","o","p","m","e","n","t">>,
      <<"r","n","d">>>>,
    \* "operating_profit": "operating_income"
    <<<<"o","p","e","r","a","t","i","n","g","_","p","r","o","f","i","t">>,
      <<"o","p","e","r","a","t","i","n","g","_","i","n","c","o","m","e">>>>,
    \* "ebit_margin": "operating_margin_pct"
    <<<<"e","b","i","t","_","m","a","r","g","i","n">>,
      <<"o","p","e","r","a","t","i","n","g","_","m","a","r","g","i","n","_","p","c","t">>>>,
    \* "profit_margin": "net_margin_pct"
    <<<<"p","r","o","f","i","t","_","m","a","r","g","i","n">>,
      <<"n","e","t","_","m","a","r","g","i","n","_","p","c","t">>>>,
    \* "net_profit_margin": "net_margin_pct"
    <<<<"n","e","t","_","p","r","o","f","i","t","_","m","a","r","g","i","n">>,
      <<"n","e","t","_","m","a","r","g","i","n","_","p","c","t">>>>,
    \* "gross_margin": "gross_margin_pct"
    <<<<"g","r","o","s","s","_","m","a","r","g","i","n">>,
      <<"g","r","o","s","s","_","m","a","r","g","i","n","_","p","c","t">>>>,
    \* "fcf": "free_cash_flow"
    <<<<"f","c","f">>,
      <<"f","r","e","e","_","c","a","s","h","_","f","l","o","w">>>>,
    \* "operating_cash_flow": "cfo"
    <<<<"o","p","e","r","a","t","i","n","g","_","c","a","s","h","_","f","l","o","w">>,
      <<"c","f","o">>>>,
    \* "ppe": "pp&e"
    <<<<"p","p","e">>,
      <<"p","p","&","e">>>>,
    \* "property_plant_equipment": "pp&e"
    <<<<"p","r","o","p","e","r","t","y","_","p","l","a","n","t","_","e","q","u","i","p","m","e","n","t">>,
      <<"p","p","&","e">>>>,
    \* "debt": "long_term_debt"
    <<<<"d","e","b","t">>,
      <<"l","o","n","g","_","t","e","r","m","_","d","e","b","t">>>>,
    \* "equity": "shareholders_equity"
    <<<<"e","q","u","i","t","y">>,
      <<"s","h","a","r","e","h","o","l","d","e","r","s","_","e","q","u","i","t","y">>>>,
    \* "book_value": "shareholders_equity"
    <<<<"b","o","o","k","_","v","a","l","u","e">>,
      <<"s","h","a","r","e","h","o","l","d","e","r","s","_","e","q","u","i","t","y">>>>,
    \* "assets": "total_assets"
    <<<<"a","s","s","e","t","s">>,
      <<"t","o","t","a","l","_","a","s","s","e","t","s">>>>,
    \* "liabilities": "total_liabilities"
    <<<<"l","i","a","b","i","l","i","t","i","e","s">>,
      <<"t","o","t","a","l","_","l","i","a","b","i","l","i","t","i","e","s">>>>,
    \* "ar": "accounts_receivable"
    <<<<"a","r">>,
      <<"a","c","c","o","u","n","t","s","_","r","e","c","e","i","v","a","b","l","e">>>>,
    \* "ap": "accounts_payable"
    <<<<"a","p">>,
      <<"a","c","c","o","u","n","t","s","_","p","a","y","a","b","l","e">>>>,
    \* "pe_ratio": "price_earnings"
    <<<<"p","e","_","r","a","t","i","o">>,
      <<"p","r","i","c","e","_","e","a","r","n","i","n","g","s">>>>,
    \* "pe": "price_earnings"
    <<<<"p","e">>,
      <<"p","r","i","c","e","_","e","a","r","n","i","n","g","s">>>>,
    \* "ps": "price_sales"
    <<<<"p","s">>,
      <<"p","r","i","c","e","_","s","a","l","e","s">>>>,
    \* "ps_ratio": "price_sales"
    <<<<"p","s","_","r","a","t","i","o">>,
      <<"p","r","i","c","e","_","s","a","l","e","s">>>>
    >>

\* mutant of METRIC_ALIASES: the alias pe maps to the alias pe_ratio
METRIC_ALIASES_chained ==
    [k \in DOMAIN dict(METRIC_ALIASES_items) |->
        IF k = <<"p","e">> THEN <<"p","e","_","r","a","t","i","o">>
        ELSE dict(METRIC_ALIASES_items)[k]]

\* mutant of METRIC_ALIASES: the metric name revenue is also an alias, of
\* net_income
METRIC_ALIASES_shadowing ==
    [k \in DOMAIN dict(METRIC_ALIASES_items)
            \cup {<<"r","e","v","e","n","u","e">>} |->
        IF k = <<"r","e","v","e","n","u","e">>
        THEN <<"n","e","t","_","i","n","c","o","m","e">>
        ELSE dict(METRIC_ALIASES_items)[k]]

METRIC_ALIASES == dict(METRIC_ALIASES_items)

----------------------------------------------------------------------------
(* calc *)

\* mutant of safe_name: '-' is left in the name
safe_name_keeps_hyphen(inp) ==
    replace(replace(inp, <<".">>, <<"_">>), <<"&">>, <<"a","n","d">>)

\* inp.replace('.', '_').replace('&', 'and').replace('-', '_')
safe_name(inp) ==
    replace(replace(replace(inp, <<".">>, <<"_">>),
                    <<"&">>, <<"a","n","d">>),
            <<"-">>, <<"_">>)

\* the dict built by the first loop of calc: safe name -> data[inp], a later
\* input replacing an earlier one that has the same safe name
RECURSIVE input_values(_, _, _)
input_values(inputs, data, acc) ==
    IF inputs = <<>> THEN acc
    ELSE LET name == safe_name(inputs[1])
         IN  input_values(Tail(inputs), data,
                 [k \in DOMAIN acc \cup {name} |->
                     IF k = name THEN data[inputs[1]] ELSE acc[k]])

\* mutant of safe_formula: the formula is evaluated as the registry spells it
safe_formula_unrewritten(formula, inputs) == formula

\* the text built by the second loop of calc: each input that differs from
\* its safe name is replaced wherever it occurs in the text so far
RECURSIVE safe_formula(_, _)
safe_formula(formula, inputs) ==
    IF inputs = <<>> THEN formula
    ELSE LET inp == inputs[1]
             name == safe_name(inp)
         IN  safe_formula(IF inp # name THEN replace(formula, inp, name)
                          ELSE formula,
                          Tail(inputs))

None == [t |-> "none"]

\* {"__builtins__": None}
safe_globals == [k \in {<<"_","_","b","u","i","l","t","i","n","s","_","_">>} |-> None]

\* mutant of safe_locals: std and sqrt are callable too
safe_locals_with_math(values) ==
    LET fns == {<<"a","b","s">>, <<"m","a","x">>, <<"m","i","n">>,
                <<"s","t","d">>, <<"s","q","r","t">>}
    IN  [k \in DOMAIN values \cup fns |->
            IF k \in {<<"a","b","s">>, <<"s","t","d">>, <<"s","q","r","t">>}
            THEN Builtin("abs")
            ELSE IF k = <<"m","a","x">> THEN Builtin("max")
            ELSE IF k = <<"m","i","n">> THEN Builtin("min")
            ELSE values[k]]

\* {**input_values, 'abs': abs, 'max': max, 'min': min}
safe_locals(values) ==
    LET fns == {<<"a","b","s">>, <<"m","a","x">>, <<"m","i","n">>}
    IN  [k \in DOMAIN values \cup fns |->
            IF k = <<"a","b","s">> THEN Builtin("abs")
            ELSE IF k = <<"m","a","x">> THEN Builtin("max")
            ELSE IF k = <<"m","i","n">> THEN Builtin("min")
            ELSE values[k]]

\* the test of the shortcut: one input, and the formula is that input
is_direct_reference(spec) ==
    Len(spec.inputs) = 1 /\ spec.formula = spec.inputs[1]

\* mutant of safe_eval: an exception of eval is swallowed and None returned
safe_eval_returns_None(source, values) ==
    LET result == eval(source, safe_globals, safe_locals(values))
    IN  IF result.raised THEN Return(None) ELSE result

\* the try block around eval: any exception becomes a ValueError
safe_eval(source, values) ==
    LET result == eval(source, safe_globals, safe_locals(values))
    IN  IF result.raised
        THEN Raise("ValueError",
                   <<"Error evaluating formula", source, result.exc.msg>>)
        ELSE result

\* the part of calc below the shortcut, for a dataset that holds every input:
\* bind the safe names, rewrite the formula, evaluate it
general_path(spec, data) ==
    safe_eval(safe_formula(spec.formula, spec.inputs),
              input_values(spec.inputs, data, <<>>))

\* the source texts calc hands to eval: the rewritten formula, and none when
\* the shortcut applies or an input is absent
eval_calls(metrics_dict, key, data) ==
    LET spec == metrics_dict[key]
    IN  IF is_direct_reference(spec) THEN <<>>
        ELSE IF \E i \in 1..Len(spec.inputs) : spec.inputs[i] \notin DOMAIN data
        THEN <<>>
        ELSE <<safe_formula(spec.formula, spec.inputs)>>

\* str(i) of an int i >= 0
RECURSIVE DecimalText(_)
DecimalText(i) ==
    LET digit == <<"0","1","2","3","4","5","6","7","8","9">>[(i % 10) + 1]
    IN  IF i < 10 THEN <<digit>> ELSE DecimalText(i \div 10) \o <<digit>>

\* str(v) of a dataset value: an int, a str or None
value_text(v) ==
    IF v.t = "str" THEN v.s
    ELSE IF v.t = "num"
         THEN (IF v.n < 0 THEN <<"-">> ELSE <<>>) \o DecimalText(Abs(v.n))
         ELSE <<"N","o","n","e">>

\* the formula with each input replaced by the text of its value
RECURSIVE inlined_formula(_, _, _)
inlined_formula(formula, inputs, data) ==
    IF inputs = <<>> THEN formula
    ELSE inlined_formula(replace(formula, inputs[1],
                                 value_text(data[inputs[1]])),
                         Tail(inputs), data)

\* mutant of calc: the values are written into the formula text, which is
\* then evaluated with no input bound
calc_inlining_values(metrics_dict, key, data) ==
    LET spec == metrics_dict[key]
    IN  IF is_direct_reference(spec)
        THEN IF spec.inputs[1] \in DOMAIN data
             THEN Return(data[spec.inputs[1]])
             ELSE Raise("ValueError", <<"Missing value for input", spec.inputs[1]>>)
        ELSE IF \E i \in 1..Len(spec.inputs) : spec.inputs[i] \notin DOMAIN data
        THEN Raise("ValueError",
                   <<"Missing values for inputs",
                     SelectSeq(spec.inputs, LAMBDA inp : inp \notin DOMAIN data)>>)
        ELSE safe_eval(inlined_formula(spec.formula, spec.inputs, data), <<>>)

\* mutant of calc: no shortcut, every formula is rewritten and evaluated
calc_without_shortcut(metrics_dict, key, data) ==
    LET spec == metrics_dict[key]
    IN  IF \E i \in 1..Len(spec.inputs) : spec.inputs[i] \notin DOMAIN data
        THEN Raise("ValueError",
                   <<"Missing values for inputs",
                     SelectSeq(spec.inputs, LAMBDA inp : inp \notin DOMAIN data)>>)
        ELSE safe_eval(safe_formula(spec.formula, spec.inputs),
                       input_values(spec.inputs, data, <<>>))

\* calc(metrics_dict, key, data): the value of the metric, or a ValueError
calc(metrics_dict, key, data) ==
    LET spec == metrics_dict[key]
    IN  IF is_direct_reference(spec)
        THEN IF spec.inputs[1] \in DOMAIN data
             THEN Return(data[spec.inputs[1]])
             ELSE Raise("ValueError", <<"Missing value for input", spec.inputs[1]>>)
        ELSE IF \E i \in 1..Len(spec.inputs) : spec.inputs[i] \notin DOMAIN data
        THEN Raise("ValueError",
                   <<"Missing values for inputs",
                     SelectSeq(spec.inputs, LAMBDA inp : inp \notin DOMAIN data)>>)
        ELSE safe_eval(safe_formula(spec.formula, spec.inputs),
                       input_values(spec.inputs, data, <<>>))

----------------------------------------------------------------------------
(* MetricsInterpreter.calculate_metric *)

\* mutant of canonical_name: the alias table is not consulted
canonical_name_unresolved(metric_name) == metric_name

\* the alias lookup: one step through METRIC_ALIASES
canonical_name(metric_name) ==
    IF metric_name \in DOMAIN METRIC_ALIASES
    THEN METRIC_ALIASES[metric_name]
    ELSE metric_name

\* mutant of absent_inputs: the presence of the inputs is not checked
absent_inputs_unchecked(inputs, data) == <<>>

\* mutant of absent_inputs: only the first absent input is reported
absent_inputs_first_only(inputs, data) ==
    LET missing == SelectSeq(inputs, LAMBDA inp : inp \notin DOMAIN data)
    IN  IF missing = <<>> THEN missing ELSE <<missing[1]>>

\* [inp for inp in inputs if inp not in data]
absent_inputs(inputs, data) ==
    SelectSeq(inputs, LAMBDA inp : inp \notin DOMAIN data)

\* mutant of unknown_metric: an unknown name is reported as missing data
unknown_metric_as_missing_data(metric_name) ==
    [success |-> FALSE,
     error |-> <<"Missing data for inputs", <<>>>>,
     metric |-> metric_name,
     missing_inputs |-> <<>>]

\* the dict returned for a name that is not in METRICS
unknown_metric(metric_name) ==
    [success |-> FALSE,
     error |-> <<"Unknown metric", metric_name>>]

\* the dict returned when inputs are absent
missing_data(metric_name, missing) ==
    [success |-> FALSE,
     error |-> <<"Missing data for inputs", missing>>,
     metric |-> metric_name,
     missing_inputs |-> missing]

\* '_pct'
pct_suffix == <<"_","p","c","t">>

\* whether the result is multiplied by 100
is_percentage(metric_name, result) ==
    endswith(metric_name, pct_suffix) /\ result.t # "str"

\* mutant of scale: the result is never multiplied
scale_never(metric_name, result) == Return(result)

\* result * 100 for a percentage metric, the result itself otherwise
scale(metric_name, result) ==
    IF is_percentage(metric_name, result)
    THEN BinOp("*", result, PyInt(100))
    ELSE Return(result)

\* mutant of calculated: inputs_used is the whole dataset
calculated_with_whole_dataset(metric_name, metric_spec, result, data) ==
    [success |-> TRUE,
     metric |-> metric_name,
     value |-> result,
     formula |-> metric_spec.formula,
     description |-> metric_spec.desc,
     inputs_used |-> data]

\* mutant of calculated: the result reports the rewritten formula
calculated_reports_safe_formula(metric_name, metric_spec, result, data) ==
    [success |-> TRUE,
     metric |-> metric_name,
     value |-> result,
     formula |-> safe_formula(metric_spec.formula, metric_spec.inputs),
     description |-> metric_spec.desc,
     inputs_used |-> [inp \in Range(metric_spec.inputs) \cap DOMAIN data
                         |-> data[inp]]]

\* the dict returned by the try block
calculated(metric_name, metric_spec, result, data) ==
    [success |-> TRUE,
     metric |-> metric_name,
     value |-> result,
     formula |-> metric_spec.formula,
     description |-> metric_spec.desc,
     inputs_used |-> [inp \in Range(metric_spec.inputs) \cap DOMAIN data
                         |-> data[inp]]]

\* mutant of except_Exception: the exception is raised again
except_Exception_reraises(metric_name, formula, e) == Raise(e.type, e.msg)

\* `except Exception as e': the dict returned for an exception of the try block
except_Exception(metric_name, formula, e) ==
    Return([success |-> FALSE,
            error |-> <<"Error calculating metric", e.msg>>,
            metric |-> metric_name,
            formula |-> formula])

\* the call, step by step: how it ends and the steps it went through.
\* Nothing before the try block can raise for a str name and a dict dataset.
calculate_metric_run(metric_name, data) ==
    LET canonical == canonical_name(metric_name)
    IN  IF canonical \notin DOMAIN METRICS
        THEN [outcome |-> Return(unknown_metric(canonical)),
              steps |-> <<"alias", "lookup">>,
              evaluated |-> <<>>]
        ELSE
        LET metric_spec == METRICS[canonical]
            missing_inputs == absent_inputs(metric_spec.inputs, data)
        IN  IF missing_inputs # <<>>
            THEN [outcome |-> Return(missing_data(canonical, missing_inputs)),
                  steps |-> <<"alias", "lookup", "inputs">>,
                  evaluated |-> <<>>]
            ELSE
            LET result == calc(METRICS, canonical, data)
                sources == eval_calls(METRICS, canonical, data)
            IN  IF result.raised
                THEN [outcome |-> except_Exception(canonical, metric_spec.formula,
                                                   result.exc),
                      steps |-> <<"alias", "lookup", "inputs", "calc">>,
                      evaluated |-> sources]
                ELSE
                LET scaled == scale(canonical, result.value)
                    done == <<"alias", "lookup", "inputs", "calc">>
                            \o (IF is_percentage(canonical, result.value)
                                THEN <<"scale">> ELSE <<>>)
                IN  IF scaled.raised
                    THEN [outcome |-> except_Exception(canonical,
                                          metric_spec.formula, scaled.exc),
                          steps |-> done,
                          evaluated |-> sources]
                    ELSE [outcome |-> Return(calculated(canonical, metric_spec,
                                                        scaled.value, data)),
                          steps |-> done,
                          evaluated |-> sources]

\* calculate_metric(metric_name, data): how the call ends
calculate_metric(metric_name, data) ==
    calculate_metric_run(metric_name, data).outcome

----------------------------------------------------------------------------
(* The caller: a metric name and a dataset, then one call *)

\* names that are neither an alias nor a registered metric
UnknownNames ==
    {<<"u","n","k","n","o","w","n","_","m","e","t","r","i","c","_","x","y","z">>,
     <<"R","e","v","e","n","u","e">>,
     <<>>}

Names == DOMAIN METRICS \cup DOMAIN METRIC_ALIASES \cup UnknownNames

\* the values a dataset may hold: small integers, and None for a line item
\* that was not reported
Values == {PyInt(v) : v \in -MaxVal..MaxVal} \cup {None}

\* the identifiers a caller may supply for a name: the direct inputs of the
\* metric it resolves to
Keys(name) ==
    LET resolved == IF name \in DOMAIN METRIC_ALIASES
                    THEN METRIC_ALIASES[name] ELSE name
    IN  IF resolved \in DOMAIN METRICS
        THEN Range(METRICS[resolved].inputs)
        ELSE {<<"r","e","v","e","n","u","e">>, <<"c","o","g","s">>}

Datasets(name) == UNION {[K -> Values] : K \in SUBSET Keys(name)}

NotCalled == [raised |-> FALSE, value |-> [success |-> "not called"]]

Init ==
    /\ arg_metric_name \in Names
    /\ arg_data \in Datasets(arg_metric_name)
    /\ pc = "call"
    /\ outcome = NotCalled
    /\ steps = <<>>
    /\ evaluated = <<>>
    /\ tables = <<>>
    /\ caller = <<>>
    /\ threads = <<>>
    /\ arg_metrics_dict = <<>>

CalculateMetric ==
    /\ pc = "call"
    /\ LET run == calculate_metric_run(arg_metric_name, arg_data)
       IN  /\ outcome' = run.outcome
           /\ steps' = run.steps
           /\ evaluated' = run.evaluated
    /\ pc' = "done"
    /\ UNCHANGED <<arg_metric_name, arg_data, arg_metrics_dict,
                   tables, caller, threads>>

Next == CalculateMetric

Spec == Init /\ [][Next]_vars


----------------------------------------------------------------------------
(* MetricsInterpreter.get_metric_definition *)

\* the dict returned for a name that is not in METRICS
unknown_definition(metric_name) ==
    [success |-> FALSE,
     error |-> <<"Unknown metric", metric_name>>]

\* mutant of get_metric_definition: the name is looked up as it is supplied
get_metric_definition_of_supplied_name(metric_name) ==
    IF metric_name \notin DOMAIN METRICS
    THEN Return(unknown_definition(metric_name))
    ELSE Return([success |-> TRUE,
                 metric |-> metric_name,
                 original_name |-> None,
                 description |-> METRICS[metric_name].desc,
                 formula |-> METRICS[metric_name].formula,
                 inputs |-> METRICS[metric_name].inputs,
                 is_alias |-> FALSE])

\* get_metric_definition(metric_name): the dict it returns; original_name is
\* the supplied name for an alias and None otherwise
get_metric_definition(metric_name) ==
    LET is_alias == metric_name \in DOMAIN METRIC_ALIASES
        canonical == canonical_name(metric_name)
    IN  IF canonical \notin DOMAIN METRICS
        THEN Return(unknown_definition(canonical))
        ELSE Return([success |-> TRUE,
                     metric |-> canonical,
                     original_name |-> IF is_alias THEN Str(metric_name)
                                       ELSE None,
                     description |-> METRICS[canonical].desc,
                     formula |-> METRICS[canonical].formula,
                     inputs |-> METRICS[canonical].inputs,
                     is_alias |-> is_alias])

----------------------------------------------------------------------------
(* get_metric_requirements of metrics_utils.py.  It reads the module's      *)
(* METRICS and METRIC_ALIASES; the operators take the two tables as         *)
(* parameters so that the same code is also run on other registries.        *)

\* s.startswith(prefix)
startswith(s, prefix) == OccursAt(s, prefix, 1)

\* ("is.", "bs.", "cf.")
statement_prefixes == {<<"i","s",".">>, <<"b","s",".">>, <<"c","f",".">>}

\* inp.startswith(("is.", "bs.", "cf."))
is_statement_item(inp) == \E p \in statement_prefixes : startswith(inp, p)

\* mutant of is_metric_input: no input is followed
is_metric_input_never(metrics, inp) == FALSE

\* the test that guards both calls of collect_inputs: the input is another
\* metric and not a direct financial statement item
is_metric_input(metrics, inp) ==
    ~is_statement_item(inp) /\ inp \in DOMAIN metrics

\* the closure variables of collect_inputs at the start: all_inputs holds the
\* direct inputs, processed_metrics is empty; expanded lists the metrics
\* whose inputs were walked, in the order they were walked
collection(info) ==
    [all_inputs |-> Range(info.inputs),
     processed_metrics |-> {},
     expanded |-> <<>>]

RECURSIVE collect_inputs(_, _, _), collect_inputs_for(_, _, _)

\* collect_inputs(metric): returns at once for a metric already processed or
\* not registered, else marks it processed and walks its inputs
collect_inputs(metrics, metric_, st) ==
    IF metric_ \in st.processed_metrics \/ metric_ \notin DOMAIN metrics
    THEN st
    ELSE collect_inputs_for(metrics, metrics[metric_].inputs,
             [st EXCEPT !.processed_metrics = @ \cup {metric_},
                        !.expanded = Append(@, metric_)])

\* the for loop of collect_inputs: each input is added, and expanded in turn
\* when it is another metric
collect_inputs_for(metrics, inputs, st) ==
    IF inputs = <<>> THEN st
    ELSE LET inp == inputs[1]
             added == [st EXCEPT !.all_inputs = @ \cup {inp}]
         IN  collect_inputs_for(metrics, Tail(inputs),
                 IF is_metric_input(metrics, inp)
                 THEN collect_inputs(metrics, inp, added)
                 ELSE added)

\* mutant of start_with_requested: processed_metrics is emptied before each
\* direct input is expanded
RECURSIVE start_with_requested_forgetful(_, _, _)
start_with_requested_forgetful(metrics, inputs, st) ==
    IF inputs = <<>> THEN st
    ELSE start_with_requested_forgetful(metrics, Tail(inputs),
             IF is_metric_input(metrics, inputs[1])
             THEN collect_inputs(metrics, inputs[1],
                                 [st EXCEPT !.processed_metrics = {}])
             ELSE st)

\* the loop over the direct inputs of the requested metric
RECURSIVE start_with_requested(_, _, _)
start_with_requested(metrics, inputs, st) ==
    IF inputs = <<>> THEN st
    ELSE start_with_requested(metrics, Tail(inputs),
             IF is_metric_input(metrics, inputs[1])
             THEN collect_inputs(metrics, inputs[1], st)
             ELSE st)

\* list(s), and [inp for inp in s if ...], of a set s of strs: the items of
\* the set once each, in the iteration order of the set.  That order depends
\* on the str hash seed of the process, so the list is kept as the bag of its
\* items and no order is modelled.
list(s) == SetToBag(s)

\* {"error": f"Unknown metric: {metric_name}"}
unknown_requirements(metric_name) ==
    [error |-> <<"Unknown metric", metric_name>>]

\* mutant of requirements: derived_inputs leaves out the is. items only
requirements_with_statement_items_derived(metric_name, info, all_inputs) ==
    [metric |-> metric_name,
     description |-> info.desc,
     formula |-> info.formula,
     direct_inputs |-> info.inputs,
     all_required_inputs |-> list(all_inputs),
     income_statement_inputs |->
         list({inp \in all_inputs : startswith(inp, <<"i","s",".">>)}),
     balance_sheet_inputs |->
         list({inp \in all_inputs : startswith(inp, <<"b","s",".">>)}),
     cash_flow_inputs |->
         list({inp \in all_inputs : startswith(inp, <<"c","f",".">>)}),
     derived_inputs |->
         list({inp \in all_inputs : ~startswith(inp, <<"i","s",".">>)})]

\* the dict returned for a registered metric
requirements(metric_name, info, all_inputs) ==
    [metric |-> metric_name,
     description |-> info.desc,
     formula |-> info.formula,
     direct_inputs |-> info.inputs,
     all_required_inputs |-> list(all_inputs),
     income_statement_inputs |->
         list({inp \in all_inputs : startswith(inp, <<"i","s",".">>)}),
     balance_sheet_inputs |->
         list({inp \in all_inputs : startswith(inp, <<"b","s",".">>)}),
     cash_flow_inputs |->
         list({inp \in all_inputs : startswith(inp, <<"c","f",".">>)}),
     derived_inputs |->
         list({inp \in all_inputs : ~is_statement_item(inp)})]

\* the call on the tables metrics and aliases: how it ends, and the metrics
\* collect_inputs expanded, in order
get_metric_requirements_run(metrics, aliases, metric_name) ==
    LET canonical == IF metric_name \in DOMAIN aliases
                     THEN aliases[metric_name] ELSE metric_name
    IN  IF canonical \notin DOMAIN metrics
        THEN [outcome |-> Return(unknown_requirements(canonical)),
              steps |-> <<>>]
        ELSE LET info == metrics[canonical]
                 st == start_with_requested(metrics, info.inputs,
                                            collection(info))
             IN  [outcome |-> Return(requirements(canonical, info,
                                                  st.all_inputs)),
                  steps |-> st.expanded]

\* get_metric_requirements(metric_name) on the shipped tables
get_metric_requirements(metric_name) ==
    get_metric_requirements_run(METRICS, METRIC_ALIASES, metric_name).outcome

----------------------------------------------------------------------------
(* The caller of get_metric_requirements on the shipped registry *)

InitRequirements ==
    /\ arg_metric_name \in Names
    /\ arg_data = <<>>
    /\ arg_metrics_dict = <<>>
    /\ pc = "call"
    /\ outcome = NotCalled
    /\ steps = <<>>
    /\ evaluated = <<>>
    /\ tables = <<>>
    /\ caller = <<>>
    /\ threads = <<>>

GetMetricRequirements ==
    /\ pc = "call"
    /\ LET run == get_metric_requirements_run(METRICS, METRIC_ALIASES,
                                              arg_metric_name)
       IN  /\ outcome' = run.outcome
           /\ steps' = run.steps
    /\ pc' = "done"
    /\ UNCHANGED <<arg_metric_name, arg_data, arg_metrics_dict, evaluated,
                   tables, caller, threads>>

NextRequirements == GetMetricRequirements

SpecRequirements == InitRequirements /\ [][NextRequirements]_vars

----------------------------------------------------------------------------
(* The caller of get_metric_requirements when METRICS is another registry:  *)
(* up to three metrics a, b, c whose inputs are drawn from the metric names *)
(* and one statement item, self-references and cycles included              *)

\* the longest inputs list of a metric of these registries
MaxInputs == 2

MetricNames == {<<"a">>, <<"b">>, <<"c">>}

InputPool == MetricNames \cup {<<"i","s",".","x">>}

\* the lists of at most MaxInputs inputs
InputLists == UNION {[1..n -> InputPool] : n \in 0..MaxInputs}

\* the registries: some of the metric names, each with a list of inputs
Registries ==
    UNION {[D -> {metric(inputs, <<>>, <<>>) : inputs \in InputLists}] :
              D \in SUBSET MetricNames \ {{}}}

InitRegistry ==
    /\ arg_metrics_dict \in Registries
    /\ arg_metric_name \in MetricNames
    /\ arg_data = <<>>
    /\ pc = "call"
    /\ outcome = NotCalled
    /\ steps = <<>>
    /\ evaluated = <<>>
    /\ tables = <<>>
    /\ caller = <<>>
    /\ threads = <<>>

GetMetricRequirementsOn ==
    /\ pc = "call"
    /\ LET run == get_metric_requirements_run(arg_metrics_dict, METRIC_ALIASES,
                                              arg_metric_name)
       IN  /\ outcome' = run.outcome
           /\ steps' = run.steps
    /\ pc' = "done"
    /\ UNCHANGED <<arg_metric_name, arg_data, arg_metrics_dict, evaluated,
                   tables, caller, threads>>

NextRegistry == GetMetricRequirementsOn

SpecRegistry == InitRegistry /\ [][NextRegistry]_vars
----------------------------------------------------------------------------
(* The call under check: abbreviations used by the properties below.  They  *)
(* read the registry and the state directly, not the operators of the call. *)

Done == pc = "done"

\* the name after one alias lookup
Resolved ==
    IF arg_metric_name \in DOMAIN METRIC_ALIASES
    THEN METRIC_ALIASES[arg_metric_name]
    ELSE arg_metric_name

Registered == Resolved \in DOMAIN METRICS

\* the direct inputs that the dataset lacks
Absent ==
    {inp \in Range(METRICS[Resolved].inputs) : inp \notin DOMAIN arg_data}

AllPresent == Registered /\ Absent = {}

\* every value of the dataset is a number
Numeric == \A k \in DOMAIN arg_data : IsNum(arg_data[k])

Succeeded == Done /\ ~outcome.raised /\ outcome.value.success = TRUE

Failed == Done /\ ~outcome.raised /\ outcome.value.success = FALSE

\* the position of x in seq, or 0
PositionIn(seq, x) ==
    IF x \in Range(seq) THEN CHOOSE i \in 1..Len(seq) : seq[i] = x ELSE 0

\* seq lists exactly the items of set, once each, in the order of `order'
ListsInOrder(seq, set, order) ==
    /\ Range(seq) = set
    /\ Len(seq) = Cardinality(set)
    /\ \A i, j \in 1..Len(seq) :
          i < j => PositionIn(order, seq[i]) < PositionIn(order, seq[j])

\* names and identifiers quoted by the properties
s_revenue == <<"r","e","v","e","n","u","e">>
s_cogs == <<"c","o","g","s">>
s_gross_profit == <<"g","r","o","s","s","_","p","r","o","f","i","t">>
s_net_income == <<"n","e","t","_","i","n","c","o","m","e">>
s_net_margin_pct == <<"n","e","t","_","m","a","r","g","i","n","_","p","c","t">>
s_ebit_margin == <<"e","b","i","t","_","m","a","r","g","i","n">>
s_operating_income ==
    <<"o","p","e","r","a","t","i","n","g","_","i","n","c","o","m","e">>
s_unknown_metric_xyz ==
    <<"u","n","k","n","o","w","n","_","m","e","t","r","i","c","_","x","y","z">>

\* the dataset {k1: v1, k2: v2}
Dataset2(k1, v1, k2, v2) ==
    [k \in {k1, k2} |-> IF k = k1 THEN PyInt(v1) ELSE PyInt(v2)]

----------------------------------------------------------------------------
(* C1: calculate_metric succeeds exactly when the name, after one alias     *)
(* lookup, is registered, every direct input is a key of the dataset and    *)
(* the evaluation raises nothing; when a direct input is absent the failure *)
(* lists exactly the absent direct inputs, in registry order, and calc is   *)
(* not reached.                                                             *)
C1_SuccessExactlyWhenEvaluable ==
    Done =>
        /\ ~outcome.raised
        /\ outcome.value.success =
              (/\ Registered
               /\ AllPresent
               /\ ~calc(METRICS, Resolved, arg_data).raised)
        /\ (Registered /\ ~AllPresent) =>
              /\ "missing_inputs" \in DOMAIN outcome.value
              /\ ListsInOrder(outcome.value.missing_inputs, Absent,
                              METRICS[Resolved].inputs)
              /\ "calc" \notin Range(steps)

\* gross_profit on {"revenue": v}: the failure names cogs
C1_Witness ==
    /\ Failed
    /\ arg_metric_name = s_gross_profit
    /\ DOMAIN arg_data = {s_revenue}
    /\ outcome.value.missing_inputs = <<s_cogs>>

(* C2: a name that is neither an alias nor a registered metric gets a       *)
(* failure that reports an unknown metric, whatever the dataset.            *)
C2_UnknownMetricFails ==
    (Done /\ arg_metric_name \notin DOMAIN METRIC_ALIASES
          /\ arg_metric_name \notin DOMAIN METRICS) =>
        /\ Failed
        /\ outcome.value.error = <<"Unknown metric", arg_metric_name>>

\* calculate_metric("unknown_metric_xyz", {})
C2_Witness ==
    /\ Failed
    /\ arg_metric_name = s_unknown_metric_xyz
    /\ DOMAIN arg_data = {}
    /\ outcome.value.error[1] = "Unknown metric"

(* C3: a registered metric whose formula is exactly its single input        *)
(* returns dataset[input] unchanged whenever the dataset has that input.    *)
C3_DirectReferencePassesThrough ==
    (/\ Done
     /\ Registered
     /\ Len(METRICS[Resolved].inputs) = 1
     /\ METRICS[Resolved].formula = METRICS[Resolved].inputs[1]
     /\ METRICS[Resolved].inputs[1] \in DOMAIN arg_data) =>
        /\ Succeeded
        /\ outcome.value.value = arg_data[METRICS[Resolved].inputs[1]]

\* a direct-reference metric called on a negative value
C3_Witness ==
    /\ Succeeded
    /\ METRICS[Resolved].formula = METRICS[Resolved].inputs[1]
    /\ arg_data[METRICS[Resolved].inputs[1]] = PyInt(-2)
    /\ outcome.value.value = PyInt(-2)

(* C4: a successful call returns the raw formula result times 100 when the  *)
(* canonical name ends with _pct and the raw result otherwise; the name the *)
(* caller supplied does not decide it.                                      *)
C4_PercentageScaling ==
    /\ Succeeded =>
          LET raw == calc(METRICS, Resolved, arg_data).value
          IN  outcome.value.value =
                 IF endswith(Resolved, <<"_","p","c","t">>)
                 THEN Num(100 * raw.n, raw.d)
                 ELSE raw
    /\ calculate_metric(s_net_margin_pct,
                        Dataset2(s_net_income, 10, s_revenue, 50)).value.value
          = PyInt(20)

\* the alias ebit_margin, which does not end with _pct, is scaled
C4_Witness ==
    /\ Succeeded
    /\ arg_metric_name = s_ebit_margin
    /\ arg_data = Dataset2(s_operating_income, 1, s_revenue, 2)
    /\ outcome.value.value = PyInt(50)

----------------------------------------------------------------------------
(* What a formula means: the arithmetic expression it spells out over the   *)
(* metric's input identifiers, read as whole names, applied to the values   *)
(* the dataset holds for them.  Used as the reference for the properties on *)
(* evaluation; it does not go through the name rewriting of calc.           *)

\* the inputs that occur at the head of s and end at a name boundary
InputsAtHead(s, inputs) ==
    {i \in 1..Len(inputs) :
        /\ OccursAt(s, inputs[i], 1)
        /\ \/ Len(s) = Len(inputs[i])
           \/ s[Len(inputs[i]) + 1] \notin NameChar}

\* the token stream of a formula in which each input identifier is one name
RECURSIVE FormulaTokens(_, _)
FormulaTokens(s, inputs) ==
    IF s = <<>> THEN <<>>
    ELSE LET here == InputsAtHead(s, inputs) IN
         IF here # {} THEN
             LET i == CHOOSE i \in here :
                         \A j \in here : Len(inputs[j]) <= Len(inputs[i])
             IN  <<Token("name", inputs[i])>>
                     \o FormulaTokens(Drop(s, Len(inputs[i]) + 1), inputs)
         ELSE IF s[1] \in NameStart THEN
             LET n == Span(s, NameChar)
             IN  <<Token("name", SubSeq(s, 1, n))>>
                     \o FormulaTokens(Drop(s, n + 1), inputs)
         ELSE IF s[1] \in Digits THEN
             LET n == Span(s, Digits)
             IN  <<Token("num", DecimalValue(SubSeq(s, 1, n), 0))>>
                     \o FormulaTokens(Drop(s, n + 1), inputs)
         ELSE IF s[1] = " " THEN FormulaTokens(Tail(s), inputs)
         ELSE IF s[1] \in OpChars
              THEN <<Token("op", s[1])>> \o FormulaTokens(Tail(s), inputs)
              ELSE <<Token("bad", s[1])>>

FunctionNames == {<<"a","b","s">>, <<"m","i","n">>, <<"m","a","x">>}

\* the names a formula refers to
NamesOf(toks) == {toks[i].v : i \in {j \in 1..Len(toks) : toks[j].k = "name"}}

\* the formula is built only from its inputs, numeric literals, + - * /,
\* parentheses and abs/min/max
IsArithmetic(spec) ==
    LET toks == FormulaTokens(spec.formula, spec.inputs)
    IN  /\ \A i \in 1..Len(toks) : toks[i].k \in {"name", "num", "op"}
        /\ NamesOf(toks) \subseteq Range(spec.inputs) \cup FunctionNames
        /\ Parse(toks, <<>>, <<>>, TRUE).ok

\* the expression tree of an arithmetic formula
FormulaTree(spec) ==
    Parse(FormulaTokens(spec.formula, spec.inputs), <<>>, <<>>, TRUE).node

\* the scope of the meaning: each input bound to the dataset's value for it
MeaningScope(spec, d) ==
    [k \in Range(spec.inputs) \cup FunctionNames |->
        IF k \in Range(spec.inputs) THEN d[k]
        ELSE IF k = <<"a","b","s">> THEN Builtin("abs")
        ELSE IF k = <<"m","i","n">> THEN Builtin("min")
        ELSE Builtin("max")]

\* the formula applied to the dataset's values of the direct inputs
Meaning(spec, d) == Evaluate(FormulaTree(spec), <<>>, MeaningScope(spec, d))

\* some division of the tree is reached with a divisor that is zero
RECURSIVE HasZeroDivisor(_, _)
HasZeroDivisor(node, scope) ==
    CASE node.op = "bin" ->
            \/ HasZeroDivisor(node.l, scope)
            \/ HasZeroDivisor(node.r, scope)
            \/ /\ node.f = "/"
               /\ Evaluate(node.r, <<>>, scope) = Return(PyInt(0))
      [] node.op = "unary" -> HasZeroDivisor(node.e, scope)
      [] node.op = "call" ->
            \E i \in 1..Len(node.args) : HasZeroDivisor(node.args[i], scope)
      [] OTHER -> FALSE

RECURSIVE HasDivision(_)
HasDivision(node) ==
    CASE node.op = "bin" ->
            node.f = "/" \/ HasDivision(node.l) \/ HasDivision(node.r)
      [] node.op = "unary" -> HasDivision(node.e)
      [] node.op = "call" ->
            \E i \in 1..Len(node.args) : HasDivision(node.args[i])
      [] OTHER -> FALSE

\* value times 100
Times100(v) == Num(100 * v.n, v.d)

s_revenue_growth_pct ==
    <<"r","e","v","e","n","u","e","_","g","r","o","w","t","h","_","p","c","t">>
s_price_sales == <<"p","r","i","c","e","_","s","a","l","e","s">>
s_market_cap == <<"m","a","r","k","e","t","_","c","a","p">>
s_sales == <<"s","a","l","e","s">>
s_volatility_30d ==
    <<"v","o","l","a","t","i","l","i","t","y","_","3","0","d">>
s_daily_returns_30d ==
    <<"d","a","i","l","y","_","r","e","t","u","r","n","s","_","3","0","d">>
s_segment_revenue ==
    <<"s","e","g","m","e","n","t","_","r","e","v","e","n","u","e">>

(* C5: for a registered metric with an arithmetic formula and a dataset     *)
(* that holds all its direct inputs and makes no divisor zero, the raw      *)
(* result is the formula applied to the dataset's values of those inputs.   *)
C5_ResultIsFormulaOfInputs ==
    /\ (/\ Done
        /\ AllPresent
        /\ Numeric
        /\ IsArithmetic(METRICS[Resolved])
        /\ ~HasZeroDivisor(FormulaTree(METRICS[Resolved]),
                           MeaningScope(METRICS[Resolved], arg_data))) =>
          LET meaning == Meaning(METRICS[Resolved], arg_data)
          IN  /\ ~meaning.raised
              /\ calc(METRICS, Resolved, arg_data) = meaning
              /\ Succeeded
              /\ outcome.value.value =
                    IF endswith(Resolved, <<"_","p","c","t">>)
                    THEN Times100(meaning.value)
                    ELSE meaning.value
    /\ calculate_metric(s_gross_profit,
                        Dataset2(s_revenue, 100, s_cogs, 40)).value.value
          = PyInt(60)

\* gross_profit on {"revenue": 2, "cogs": -1} gives 3
C5_Witness ==
    /\ Succeeded
    /\ arg_metric_name = s_gross_profit
    /\ arg_data = Dataset2(s_revenue, 2, s_cogs, -1)
    /\ outcome.value.value = PyInt(3)

(* C6: a call under an alias returns, field for field, what the call under  *)
(* the alias's canonical name returns on the same dataset.                  *)
C6_AliasSameAsCanonical ==
    (Done /\ arg_metric_name \in DOMAIN METRIC_ALIASES) =>
        outcome = calculate_metric(METRIC_ALIASES[arg_metric_name], arg_data)

\* calculate_metric("sales", {"is.NetRevenue": 1}) reports the metric revenue
C6_Witness ==
    /\ Succeeded
    /\ arg_metric_name = s_sales
    /\ outcome.value.metric = s_revenue
    /\ outcome.value.value = PyInt(1)

(* C7: when all direct inputs are present and a divisor of the formula is   *)
(* zero, the call fails with an evaluation error that carries the metric    *)
(* name and the formula; it never succeeds.  Every registered formula with  *)
(* a division is an arithmetic one.                                         *)
C7_ZeroDivisorFails ==
    (Done /\ AllPresent /\ ~is_direct_reference(METRICS[Resolved])
          /\ "/" \in Range(METRICS[Resolved].formula)) =>
        /\ IsArithmetic(METRICS[Resolved])
        /\ HasDivision(FormulaTree(METRICS[Resolved]))
        /\ HasZeroDivisor(FormulaTree(METRICS[Resolved]),
                          MeaningScope(METRICS[Resolved], arg_data)) =>
              /\ Failed
              /\ outcome.value.error[1] = "Error calculating metric"
              /\ outcome.value.metric = Resolved
              /\ outcome.value.formula = METRICS[Resolved].formula

\* price_sales on {"market_cap": 1, "revenue": 0}
C7_Witness ==
    /\ Failed
    /\ arg_metric_name = s_price_sales
    /\ arg_data = Dataset2(s_market_cap, 1, s_revenue, 0)
    /\ outcome.value.error[2][3] = <<"division by zero">>

(* C8: every call ends by returning a dict with a boolean success flag;     *)
(* no exception, one raised inside calc included, reaches the caller.       *)
C8_AlwaysReturnsResult ==
    Done => (~outcome.raised /\ outcome.value.success \in BOOLEAN)

\* a call in which calc raised: ltm_revenue with its four inputs present
C8_Witness ==
    /\ Failed
    /\ AllPresent
    /\ Len(METRICS[Resolved].inputs) = 4
    /\ calc(METRICS, Resolved, arg_data).raised
    /\ outcome.value.error[1] = "Error calculating metric"

(* C9: every identifier of a registered formula is one of the metric's      *)
(* inputs or one of abs, min, max, and so the metric can be calculated on   *)
(* some dataset.                                                            *)
C9_FormulaNamesAreInputs ==
    (Done /\ Registered) =>
        /\ NamesOf(FormulaTokens(METRICS[Resolved].formula,
                                 METRICS[Resolved].inputs))
              \subseteq Range(METRICS[Resolved].inputs) \cup FunctionNames
        /\ \E d \in [Range(METRICS[Resolved].inputs) -> {PyInt(1), PyInt(2)}] :
              calculate_metric(Resolved, d).value.success

\* the safe token of an input identifier, character by character
RECURSIVE Sanitized(_)
Sanitized(s) ==
    IF s = <<>> THEN <<>>
    ELSE (CASE s[1] \in {".", "-"} -> <<"_">>
            [] s[1] = "&" -> <<"a","n","d">>
            [] OTHER -> <<s[1]>>) \o Sanitized(Tail(s))

(* C10: the formula is evaluated in a scope that binds the sanitized names  *)
(* of the direct inputs and abs, min, max and nothing else; a formula that  *)
(* refers to another name fails to evaluate although every input is there.  *)
C10_ScopeIsInputsAndBuiltins ==
    (Done /\ AllPresent /\ ~is_direct_reference(METRICS[Resolved])) =>
        LET spec == METRICS[Resolved]
            scope == safe_locals(input_values(spec.inputs, arg_data, <<>>))
            names == NamesOf(Tokenize(safe_formula(spec.formula, spec.inputs)))
        IN  /\ DOMAIN scope =
                  {Sanitized(spec.inputs[i]) : i \in 1..Len(spec.inputs)}
                      \cup FunctionNames
            /\ (names \ DOMAIN scope # {}) =>
                  /\ Failed
                  /\ outcome.value.error[1] = "Error calculating metric"
                  /\ outcome.value.error[2][1] = "Error evaluating formula"

\* volatility_30d, whose formula calls std and sqrt, with its input present
C10_Witness ==
    /\ Failed
    /\ arg_metric_name = s_volatility_30d
    /\ s_daily_returns_30d \in DOMAIN arg_data
    /\ outcome.value.error[2][3] = <<"name is not defined">>

----------------------------------------------------------------------------
(* The caller with a crafted dataset: values that are expression text, and  *)
(* keys beside the metric's inputs that name a builtin or the safe token of *)
(* an input                                                                 *)

\* a dataset value that is expression text: the str '1/0'
CraftedValue == Str(<<"1","/","0">>)

CraftedValues == {PyInt(2), CraftedValue}

s_abs == <<"a","b","s">>

\* the keys a crafted dataset may hold for a name: the direct inputs, the
\* name abs, and the safe tokens of the direct inputs
CraftedKeys(name) ==
    Keys(name) \cup {s_abs} \cup {safe_name(k) : k \in Keys(name)}

CraftedDatasets(name) ==
    UNION {[K -> CraftedValues] : K \in SUBSET CraftedKeys(name)}

InitCrafted ==
    /\ arg_metric_name \in Names
    /\ arg_data \in CraftedDatasets(arg_metric_name)
    /\ pc = "call"
    /\ outcome = NotCalled
    /\ steps = <<>>
    /\ evaluated = <<>>
    /\ tables = <<>>
    /\ caller = <<>>
    /\ threads = <<>>
    /\ arg_metrics_dict = <<>>

SpecCrafted == InitCrafted /\ [][Next]_vars

\* the dataset that holds 1 for every direct input of a metric
PlainDataset(spec) == [k \in Range(spec.inputs) |-> PyInt(1)]

\* the dataset d without the keys that are no direct input of the metric
DirectInputsOnly(spec, d) == [k \in DOMAIN d \cap Range(spec.inputs) |-> d[k]]

s_price == <<"p","r","i","c","e">>
s_shares_out == <<"s","h","a","r","e","s","_","o","u","t">>

(* C11: whatever the dataset holds, the call hands eval at most one text,   *)
(* and it is the text evaluated for the dataset of plain numbers, so it is  *)
(* decided by the registry entry alone; the keys of the dataset that are no *)
(* direct input change nothing in the result; and for an arithmetic formula *)
(* the raw result is the formula's arithmetic on the values bound to the    *)
(* inputs, a value that is expression text being an operand like any other. *)
C11_NoDatasetTextIsEvaluated ==
    Done =>
        /\ Len(evaluated) <= 1
        /\ evaluated # <<>> =>
              /\ AllPresent
              /\ evaluated = calculate_metric_run(Resolved,
                                 PlainDataset(METRICS[Resolved])).evaluated
        /\ Registered =>
              outcome = calculate_metric(arg_metric_name,
                            DirectInputsOnly(METRICS[Resolved], arg_data))
        /\ (AllPresent /\ IsArithmetic(METRICS[Resolved])) =>
              LET meaning == Meaning(METRICS[Resolved], arg_data)
                  raw == calc(METRICS, Resolved, arg_data)
              IN  /\ raw.raised = meaning.raised
                  /\ ~raw.raised => raw = meaning
                  /\ raw.raised => raw.exc.msg[3] = meaning.exc.msg

\* market_cap on {"price": '1/0', "shares_out": 2, "abs": '1/0'}: the str is
\* repeated, not evaluated
C11_Witness ==
    /\ Succeeded
    /\ arg_metric_name = s_market_cap
    /\ DOMAIN arg_data = {s_price, s_shares_out, s_abs}
    /\ arg_data[s_price] = CraftedValue
    /\ arg_data[s_abs] = CraftedValue
    /\ evaluated = <<<<"p","r","i","c","e"," ","*"," ","s","h","a","r","e","s","_","o","u","t">>>>
    /\ outcome.value.value = Str(<<"1","/","0","1","/","0">>)
----------------------------------------------------------------------------
(* The caller of calc: a metrics dictionary of its own with one metric m,   *)
(* whose inputs are identifiers written with the characters the safe name   *)
(* replaces, and a dataset for it; then one call calc(metrics_dict, m, data) *)

\* the identifiers of the test metrics: a and b joined by each of the
\* characters that safe_name replaces or leaves, and the two letters alone
Identifiers ==
    {<<"a", c, "b">> : c \in {".", "-", "_", "&"}}
        \cup {<<"a","a","n","d","b">>, <<"a">>, <<"b">>}

s_m == <<"m">>

\* {"m": {"inputs": [x, y], "formula": "x - y", "desc": ""}}
Difference(x, y) ==
    [k \in {s_m} |->
        metric(<<x, y>>, x \o <<" ", "-", " ">> \o y, <<>>)]

\* {"m": {"inputs": [x], "formula": "x", "desc": ""}}
Reference(x) == [k \in {s_m} |-> metric(<<x>>, x, <<>>)]

MetricsDicts ==
    {Difference(x, y) : x, y \in Identifiers} \cup
    {Reference(x) : x \in Identifiers}

InitCalc ==
    /\ arg_metrics_dict \in MetricsDicts
    /\ arg_metric_name = s_m
    /\ arg_data \in [Range(arg_metrics_dict[s_m].inputs)
                        -> {PyInt(v) : v \in -MaxVal..MaxVal}]
    /\ pc = "call"
    /\ outcome = NotCalled
    /\ steps = <<>>
    /\ evaluated = <<>>
    /\ tables = <<>>
    /\ caller = <<>>
    /\ threads = <<>>

Calc ==
    /\ pc = "call"
    /\ outcome' = calc(arg_metrics_dict, arg_metric_name, arg_data)
    /\ evaluated' = eval_calls(arg_metrics_dict, arg_metric_name, arg_data)
    /\ steps' = <<"calc">>
    /\ pc' = "done"
    /\ UNCHANGED <<arg_metric_name, arg_data, arg_metrics_dict,
                   tables, caller, threads>>

NextCalc == Calc

SpecCalc == InitCalc /\ [][NextCalc]_vars

s_a_dot_b == <<"a", ".", "b">>
s_a_underscore_b == <<"a", "_", "b">>

(* C12: two distinct input identifiers of a metric never get the same safe  *)
(* token, so the scope calc builds binds as many names as the metric has    *)
(* distinct inputs and the difference x - y of two inputs is computed on    *)
(* the value of x and the value of y.                                       *)
C12_SafeNamesAreDistinct ==
    Done =>
        LET spec == arg_metrics_dict[arg_metric_name]
            inputs == Range(spec.inputs)
        IN  /\ \A x, y \in inputs : x # y => safe_name(x) # safe_name(y)
            /\ Cardinality(DOMAIN input_values(spec.inputs, arg_data, <<>>))
                  = Cardinality(inputs)
            /\ (Len(spec.inputs) = 2 /\ ~outcome.raised) =>
                  outcome.value = BinOp("-", arg_data[spec.inputs[1]],
                                        arg_data[spec.inputs[2]]).value

\* calc on inputs a.b and a_b, formula "a.b - a_b", data {a.b: 1, a_b: 2}
\* returns 0: both inputs are bound to the one name a_b
C12_Collision ==
    /\ Done
    /\ arg_metrics_dict = Difference(s_a_dot_b, s_a_underscore_b)
    /\ arg_data[s_a_dot_b] = PyInt(1)
    /\ arg_data[s_a_underscore_b] = PyInt(2)
    /\ outcome = Return(PyInt(0))
----------------------------------------------------------------------------
(* Properties of calculate_metric on the shipped registry, continued *)

s_employees == <<"e","m","p","l","o","y","e","e","s">>
s_10K_Employees == <<"1","0","K",".","E","m","p","l","o","y","e","e","s">>

(* C13: for every registered metric whose formula is exactly its single     *)
(* input, employees with its input 10K.Employees included, and every        *)
(* dataset that holds the input, the shortcut of calc returns what the part *)
(* of calc below the shortcut (safe name, rewritten formula, eval) returns. *)
C13_ShortcutEqualsGeneralPath ==
    (/\ Done
     /\ Registered
     /\ Len(METRICS[Resolved].inputs) = 1
     /\ METRICS[Resolved].formula = METRICS[Resolved].inputs[1]
     /\ METRICS[Resolved].inputs[1] \in DOMAIN arg_data) =>
        /\ Succeeded
        /\ calc(METRICS, Resolved, arg_data)
              = general_path(METRICS[Resolved], arg_data)

\* employees on {"10K.Employees": 2} succeeds through the shortcut; below the
\* shortcut the text 10K_Employees is no expression and eval raises
C13_EmployeesNeedsShortcut ==
    /\ Succeeded
    /\ arg_metric_name = s_employees
    /\ arg_data[s_10K_Employees] = PyInt(2)
    /\ outcome.value.value = PyInt(2)
    /\ general_path(METRICS[Resolved], arg_data).raised
    /\ general_path(METRICS[Resolved], arg_data).exc.msg[3] = <<"invalid syntax">>

\* the same equality for every direct-reference metric but employees
C13_ExceptEmployees ==
    (/\ Done
     /\ Registered
     /\ Resolved # s_employees
     /\ Len(METRICS[Resolved].inputs) = 1
     /\ METRICS[Resolved].formula = METRICS[Resolved].inputs[1]
     /\ METRICS[Resolved].inputs[1] \in DOMAIN arg_data) =>
        calc(METRICS, Resolved, arg_data)
           = general_path(METRICS[Resolved], arg_data)

s_eps_growth_pct ==
    <<"e","p","s","_","g","r","o","w","t","h","_","p","c","t">>
s_rd_growth_pct == <<"r","d","_","g","r","o","w","t","h","_","p","c","t">>
s_capex_growth_pct ==
    <<"c","a","p","e","x","_","g","r","o","w","t","h","_","p","c","t">>
s_revenue_t == <<"r","e","v","e","n","u","e","_","t">>
s_revenue_t_minus_1 == <<"r","e","v","e","n","u","e","_","t","-","1">>

\* the year-over-year growth metrics
GrowthMetrics ==
    {s_revenue_growth_pct, s_eps_growth_pct, s_rd_growth_pct,
     s_capex_growth_pct}

(* C14: each year-over-year growth metric is registered with the inputs X_t *)
(* and X_t-1, and on a dataset that holds the numbers a for X_t and b # 0   *)
(* for X_t-1 the call succeeds with (a / b - 1) * 100: X_t-1 is one         *)
(* variable holding b, not X_t minus 1.                                     *)
C14_GrowthUsesPriorPeriod ==
    /\ GrowthMetrics \subseteq DOMAIN METRICS
    /\ \A g \in GrowthMetrics :
          /\ Len(METRICS[g].inputs) = 2
          /\ METRICS[g].inputs[2] = METRICS[g].inputs[1] \o <<"-","1">>
          /\ endswith(METRICS[g].inputs[1], <<"_","t">>)
    /\ (Done /\ Resolved \in GrowthMetrics /\ AllPresent /\ Numeric
             /\ arg_data[METRICS[Resolved].inputs[2]] # PyInt(0)) =>
          LET a == arg_data[METRICS[Resolved].inputs[1]]
              b == arg_data[METRICS[Resolved].inputs[2]]
          IN  /\ Succeeded
              /\ outcome.value.value =
                    Num(100 * (a.n * b.d - b.n * a.d), a.d * b.n)

\* revenue_growth_pct on {"revenue_t": 1, "revenue_t-1": 2} gives -50
C14_Witness ==
    /\ Succeeded
    /\ arg_metric_name = s_revenue_growth_pct
    /\ arg_data = Dataset2(s_revenue_t, 1, s_revenue_t_minus_1, 2)
    /\ outcome.value.value = PyInt(-50)

(* C15: a successful result carries the canonical name, the formula text of *)
(* the registry (not the rewritten text), the registry description, the     *)
(* value, and inputs_used, whose keys are exactly the direct inputs of the  *)
(* metric and whose values are the dataset's values for them.               *)
C15_SuccessResultFields ==
    Succeeded =>
        /\ DOMAIN outcome.value =
              {"success", "metric", "value", "formula", "description",
               "inputs_used"}
        /\ outcome.value.metric = Resolved
        /\ outcome.value.formula = METRICS[Resolved].formula
        /\ outcome.value.description = METRICS[Resolved].desc
        /\ DOMAIN outcome.value.inputs_used = Range(METRICS[Resolved].inputs)
        /\ \A inp \in Range(METRICS[Resolved].inputs) :
              outcome.value.inputs_used[inp] = arg_data[inp]

s_ebitda == <<"e","b","i","t","d","a">>
s_is_DandA == <<"i","s",".","D","&","A">>

\* ebitda on {"operating_income": *, "is.D&A": 1, abs: *}: the formula is
\* reported with is.D&A, as registered, and abs is not among inputs_used
C15_Witness ==
    /\ Succeeded
    /\ arg_metric_name = s_ebitda
    /\ s_abs \in DOMAIN arg_data
    /\ outcome.value.formula =
          <<"o","p","e","r","a","t","i","n","g","_","i","n","c","o","m","e",
            " ","+"," ","i","s",".","D","&","A">>
    /\ DOMAIN outcome.value.inputs_used = {s_operating_income, s_is_DandA}
    /\ evaluated # <<outcome.value.formula>>

(* C16: every failure result, whether for an unknown metric, for missing    *)
(* inputs or for an evaluation error, has success false, an error message   *)
(* and a missing-inputs list.                                               *)
C16_FailureCarriesMissingInputs ==
    Failed =>
        /\ "error" \in DOMAIN outcome.value
        /\ "missing_inputs" \in DOMAIN outcome.value

\* the failure for a division by zero has no missing_inputs key, and neither
\* has the failure for an unknown metric
C16_FailureWithoutMissingInputs ==
    /\ Failed
    /\ arg_metric_name = s_price_sales
    /\ arg_data = Dataset2(s_market_cap, 1, s_revenue, 0)
    /\ DOMAIN outcome.value = {"success", "error", "metric", "formula"}
    /\ DOMAIN calculate_metric(s_unknown_metric_xyz, arg_data).value
          = {"success", "error"}

\* what does hold: every failure has success false and an error message, and
\* it has the missing-inputs list exactly when direct inputs are absent
C16_MissingInputsOnlyWhenAbsent ==
    Failed =>
        /\ "error" \in DOMAIN outcome.value
        /\ ("missing_inputs" \in DOMAIN outcome.value)
              = (Registered /\ ~AllPresent)

s_pe == <<"p","e">>
s_price_earnings ==
    <<"p","r","i","c","e","_","e","a","r","n","i","n","g","s">>

(* C20: every value of METRIC_ALIASES is a key of METRICS and none is a key *)
(* of METRIC_ALIASES, so for every alias the one alias lookup of            *)
(* calculate_metric, get_metric_definition and get_metric_requirements ends *)
(* on a registry entry: none of them reports an unknown metric.             *)
C20_AliasesLandOnRegistry ==
    /\ \A alias \in DOMAIN METRIC_ALIASES :
          /\ METRIC_ALIASES[alias] \in DOMAIN METRICS
          /\ METRIC_ALIASES[alias] \notin DOMAIN METRIC_ALIASES
    /\ (Done /\ arg_metric_name \in DOMAIN METRIC_ALIASES) =>
          /\ "lookup" \in Range(steps)
          /\ ~outcome.raised
          /\ "metric" \in DOMAIN outcome.value
          /\ outcome.value.metric = METRIC_ALIASES[arg_metric_name]
          /\ outcome.value.metric \in DOMAIN METRICS
          /\ get_metric_definition(arg_metric_name).value.success
          /\ get_metric_definition(arg_metric_name).value.metric
                = METRIC_ALIASES[arg_metric_name]
          /\ "error" \notin
                DOMAIN get_metric_requirements(arg_metric_name).value
          /\ get_metric_requirements(arg_metric_name).value.metric
                = METRIC_ALIASES[arg_metric_name]

\* calculate_metric("pe", {"price": 2, "eps_diluted": 1}) is price_earnings
C20_Witness ==
    /\ Succeeded
    /\ arg_metric_name = s_pe
    /\ outcome.value.metric = s_price_earnings
    /\ outcome.value.value = PyInt(2)
----------------------------------------------------------------------------
(* Properties of get_metric_requirements *)

\* the call has returned a dict
Returned == Done /\ ~outcome.raised

(* C17: for a name that resolves to no registry entry, the result of        *)
(* get_metric_requirements has a success flag that is false and an error    *)
(* description, like the results of calculate_metric and of                 *)
(* get_metric_definition for that name.                                     *)
C17_UnknownIsStructuredFailure ==
    (Done /\ ~Registered) =>
        /\ ~outcome.raised
        /\ "error" \in DOMAIN outcome.value
        /\ "success" \in DOMAIN outcome.value
        /\ outcome.value.success = FALSE

\* get_metric_requirements("unknown_metric_xyz") returns a dict whose only
\* key is error, where calculate_metric and get_metric_definition return
\* success false and an error
C17_UnknownHasNoSuccessFlag ==
    /\ Returned
    /\ arg_metric_name = s_unknown_metric_xyz
    /\ DOMAIN outcome.value = {"error"}
    /\ outcome.value.error = <<"Unknown metric", s_unknown_metric_xyz>>
    /\ get_metric_definition(arg_metric_name).value
          = [success |-> FALSE,
             error |-> <<"Unknown metric", s_unknown_metric_xyz>>]
    /\ calculate_metric(arg_metric_name, <<>>).value.success = FALSE

\* the inputs of the metrics of S that are metric names themselves
MetricInputsOf(metrics, S) ==
    {inp \in UNION {Range(metrics[s].inputs) : s \in S} : inp \in DOMAIN metrics}

\* the least set of metrics that contains S and the metric inputs of its
\* members
RECURSIVE ReachableFrom(_, _)
ReachableFrom(metrics, S) ==
    IF MetricInputsOf(metrics, S) \subseteq S THEN S
    ELSE ReachableFrom(metrics, S \cup MetricInputsOf(metrics, S))

\* every input of m and of every metric reachable from m through inputs that
\* are metric names
RequiredInputs(metrics, m) ==
    LET direct == Range(metrics[m].inputs)
        reached == ReachableFrom(metrics, direct \cap DOMAIN metrics)
    IN  direct \cup UNION {Range(metrics[s].inputs) : s \in reached}

s_free_cash_flow == <<"f","r","e","e","_","c","a","s","h","_","f","l","o","w">>
s_cfo == <<"c","f","o">>
s_capex == <<"c","a","p","e","x">>
s_cf_CashFromOperations ==
    <<"c","f",".","C","a","s","h","F","r","o","m","O","p","e","r","a","t","i","o","n","s">>
s_cf_CapEx == <<"c","f",".","C","a","p","E","x">>

(* C18: for every registered metric m, all_required_inputs lists, once      *)
(* each, exactly the inputs of m and of every metric reachable from m       *)
(* through inputs that are metric names; for free_cash_flow it holds        *)
(* cf.CashFromOperations and cf.CapEx.                                      *)
C18_RequirementsAreTheClosure ==
    /\ (Done /\ Registered) =>
          /\ ~outcome.raised
          /\ "all_required_inputs" \in DOMAIN outcome.value
          /\ BagToSet(outcome.value.all_required_inputs)
                = RequiredInputs(METRICS, Resolved)
          /\ \A inp \in RequiredInputs(METRICS, Resolved) :
                CopiesIn(inp, outcome.value.all_required_inputs) = 1
    /\ {s_cf_CashFromOperations, s_cf_CapEx} \subseteq
          BagToSet(get_metric_requirements(s_free_cash_flow).value
                       .all_required_inputs)

\* get_metric_requirements("free_cash_flow"): cfo and capex are expanded
C18_Witness ==
    /\ Returned
    /\ arg_metric_name = s_free_cash_flow
    /\ steps = <<s_cfo, s_capex>>
    /\ outcome.value.all_required_inputs =
          SetToBag({s_cfo, s_capex, s_cf_CashFromOperations, s_cf_CapEx})
    /\ outcome.value.cash_flow_inputs =
          SetToBag({s_cf_CashFromOperations, s_cf_CapEx})

\* no item occurs twice in seq
NoRepeats(seq) == \A i, j \in 1..Len(seq) : seq[i] = seq[j] => i = j

s_a == <<"a">>
s_b == <<"b">>
s_c == <<"c">>

\* the registry {a: [x], b: [y], c: [z]}
Registry3(x, y, z) ==
    [m \in MetricNames |->
        metric(IF m = s_a THEN <<x>> ELSE IF m = s_b THEN <<y>> ELSE <<z>>,
               <<>>, <<>>)]

C19_SelfReference ==
    /\ Returned
    /\ arg_metric_name = s_a
    /\ arg_metrics_dict = [m \in {s_a} |-> metric(<<s_a>>, <<>>, <<>>)]
    /\ steps = <<s_a>>
    /\ outcome.value.all_required_inputs = SetToBag({s_a})

----------------------------------------------------------------------------
(* Several calls in a row.  METRICS and METRIC_ALIASES are module-level     *)
(* dicts, that is objects every call reads at the time it runs; `tables'    *)
(* holds what they contain.  The operators below are the operations as      *)
(* functions of that content.                                               *)

UpperCase ==
    <<"A","B","C","D","E","F","G","H","I","J","K","L","M",
      "N","O","P","Q","R","S","T","U","V","W","X","Y","Z">>

LowerCase ==
    <<"a","b","c","d","e","f","g","h","i","j","k","l","m",
      "n","o","p","q","r","s","t","u","v","w","x","y","z">>

\* the lower-case form of the characters that have one
Lowered == [c \in Range(UpperCase) |-> LowerCase[IndexOf(UpperCase, c, 1)]]

\* s.lower(), for texts whose only cased characters are ASCII letters
lower(s) ==
    [i \in 1..Len(s) |-> IF s[i] \in DOMAIN Lowered THEN Lowered[s[i]] ELSE s[i]]

\* `sub in s' for two strs
contains(s, sub) ==
    \E i \in 1..(Len(s) - Len(sub) + 1) : OccursAt(s, sub, i)

\* re.sub(r'[.,;:?!]', ' ', query)
punctuation_to_spaces(query) ==
    [i \in 1..Len(query) |->
        IF query[i] \in {".", ",", ";", ":", "?", "!"} THEN " " ELSE query[i]]

\* re.sub(r"['']", '', clean_query)
without_apostrophes(clean_query) == SelectSeq(clean_query, LAMBDA c : c # "'")

\* the keys of a dict literal in iteration order: the order of first insertion
dict_keys(items) ==
    LET first == SelectSeq([i \in 1..Len(items) |-> i],
                     LAMBDA i : \A j \in 1..(i - 1) : items[j][1] # items[i][1])
    IN  [n \in 1..Len(first) |-> items[first[n]][1]]

\* `for metric_name in METRICS': no operation inserts or deletes a key
METRICS_keys == dict_keys(METRICS_items)

\* `for alias, metric_name in METRIC_ALIASES.items()'
METRIC_ALIASES_keys == dict_keys(METRIC_ALIASES_items)

\* the test of the first loop of identify_metrics on one metric name
is_mentioned(clean_query, metric_name) ==
    LET normalized_name == replace(metric_name, <<"_">>, <<" ">>)
        base_name == replace(SubSeq(metric_name, 1, Len(metric_name) - 4),
                             <<"_">>, <<" ">>)
    IN  \/ contains(clean_query, normalized_name)
        \/ /\ endswith(metric_name, <<"_","p","c","t">>)
           /\ contains(clean_query, base_name)
           /\ \/ contains(clean_query,
                          <<"p","e","r","c","e","n","t","a","g","e">>)
              \/ contains(clean_query, <<"p","e","r","c","e","n","t">>)
              \/ contains(clean_query, <<"%">>)

\* the first loop of identify_metrics: the mentioned names, in registry order
direct_mentions(clean_query) ==
    SelectSeq(METRICS_keys, LAMBDA metric_name :
                                is_mentioned(clean_query, metric_name))

\* the second loop of identify_metrics over the aliases from position i on
RECURSIVE alias_mentions(_, _, _, _)
alias_mentions(aliases, clean_query, i, found) ==
    IF i > Len(METRIC_ALIASES_keys) THEN found
    ELSE
    LET alias == METRIC_ALIASES_keys[i]
        metric_name == aliases[alias]
        normalized_alias == replace(alias, <<"_">>, <<" ">>)
    IN  alias_mentions(aliases, clean_query, i + 1,
            IF /\ contains(clean_query, normalized_alias)
               /\ metric_name \notin Range(found)
            THEN Append(found, metric_name) ELSE found)

\* identify_metrics(query): the list of metric names it returns
identify_metrics(aliases, query) ==
    LET clean_query == without_apostrophes(punctuation_to_spaces(lower(query)))
    IN  Return(alias_mentions(aliases, clean_query, 1,
                              direct_mentions(clean_query)))

\* one dict of the lists get_available_metrics and find_metrics_by_keyword
\* return
listed(name, info) ==
    [name |-> name,
     description |-> info.desc,
     formula |-> info.formula,
     inputs |-> info.inputs]

\* get_available_metrics(): one dict per entry, in registry order
get_available_metrics(metrics) ==
    Return([i \in 1..Len(METRICS_keys) |->
               listed(METRICS_keys[i], metrics[METRICS_keys[i]])])

\* the condition of find_metrics_by_keyword on one entry, keyword lowered
keyword_matches(keyword, name, info) ==
    \/ contains(lower(name), keyword)
    \/ contains(lower(info.desc), keyword)
    \/ \E i \in 1..Len(info.inputs) : contains(lower(info.inputs[i]), keyword)

\* the names of the entries find_metrics_by_keyword matches, in registry order
matching_names(metrics, keyword) ==
    SelectSeq(METRICS_keys,
              LAMBDA name : keyword_matches(lower(keyword), name, metrics[name]))

\* find_metrics_by_keyword(keyword): one dict per matching entry
find_metrics_by_keyword(metrics, keyword) ==
    LET names == matching_names(metrics, keyword)
    IN  Return([i \in 1..Len(names) |-> listed(names[i], metrics[names[i]])])

\* get_metric_definition(metric_name) on the tables as they are
get_metric_definition_reading(metrics, aliases, metric_name) ==
    LET is_alias == metric_name \in DOMAIN aliases
        canonical == IF is_alias THEN aliases[metric_name] ELSE metric_name
    IN  IF canonical \notin DOMAIN metrics
        THEN Return(unknown_definition(canonical))
        ELSE Return([success |-> TRUE,
                     metric |-> canonical,
                     original_name |-> IF is_alias THEN Str(metric_name)
                                       ELSE None,
                     description |-> metrics[canonical].desc,
                     formula |-> metrics[canonical].formula,
                     inputs |-> metrics[canonical].inputs,
                     is_alias |-> is_alias])

\* calculate_metric(metric_name, data) on the tables as they are
calculate_metric_reading(metrics, aliases, metric_name, data) ==
    LET canonical == IF metric_name \in DOMAIN aliases
                     THEN aliases[metric_name] ELSE metric_name
    IN  IF canonical \notin DOMAIN metrics
        THEN Return(unknown_metric(canonical))
        ELSE
        LET metric_spec == metrics[canonical]
            missing_inputs == absent_inputs(metric_spec.inputs, data)
        IN  IF missing_inputs # <<>>
            THEN Return(missing_data(canonical, missing_inputs))
            ELSE
            LET result == calc(metrics, canonical, data)
            IN  IF result.raised
                THEN except_Exception(canonical, metric_spec.formula,
                                      result.exc)
                ELSE
                LET scaled == scale(canonical, result.value)
                IN  IF scaled.raised
                    THEN except_Exception(canonical, metric_spec.formula,
                                          scaled.exc)
                    ELSE Return(calculated(canonical, metric_spec,
                                           scaled.value, data))

\* calc(METRICS, key, data) on the registry as it is; `metrics_dict[key]'
\* raises KeyError for a key the registry does not have
calc_reading(metrics, key, data) ==
    IF key \notin DOMAIN metrics THEN Raise("KeyError", key)
    ELSE calc(metrics, key, data)

----------------------------------------------------------------------------
(* What a call leaves behind.  The objects a caller can see after a call    *)
(* are its dataset, the two tables and the result.                          *)

\* mutant of dataset_after: calculate_metric keeps its value in the dataset
dataset_after_storing_value(op, data, result) ==
    IF op = "calculate_metric" /\ result.value.success
    THEN [k \in DOMAIN data \cup {result.value.metric} |->
             IF k = result.value.metric THEN result.value.value ELSE data[k]]
    ELSE data

\* the caller's dataset after a call: the operations read it with `in' and
\* data[inp]; input_values, safe_locals and inputs_used are dicts of their own
dataset_after(op, data, result) == data

\* mutant of tables_after: find_metrics_by_keyword lowers the descriptions in
\* place
tables_after_lowering_desc(op, tbls) ==
    IF op = "find_metrics_by_keyword"
    THEN [tbls EXCEPT !.METRICS =
             [name \in DOMAIN @ |-> [@[name] EXCEPT !.desc = lower(@)]]]
    ELSE tbls

\* the two tables after a call: the operations read them with `in', [..],
\* .items() and iteration; every assignment they make is to a local name
tables_after(op, tbls) == tbls

\* the list object METRICS[name]["inputs"]
registry_list(name) == <<"METRICS", name, "inputs">>

\* a list the call has built itself, under the key it has in the result
built_list(key) == <<"result", key>>

\* the lists of the dicts made by `"inputs": info["inputs"]': the registry's
listed_lists(result) ==
    {registry_list(result.value[i].name) : i \in 1..Len(result.value)}

\* `"inputs": metric_spec["inputs"]' of get_metric_definition
definition_lists(result) ==
    IF result.value.success THEN {registry_list(result.value.metric)} ELSE {}

\* `"direct_inputs": info["inputs"]' of get_metric_requirements, and the five
\* lists made by list(all_inputs) and the comprehensions
requirements_lists(result) ==
    IF "error" \in DOMAIN result.value THEN {}
    ELSE {registry_list(result.value.metric)} \cup
         {built_list(key) : key \in {"all_required_inputs",
                                     "income_statement_inputs",
                                     "balance_sheet_inputs",
                                     "cash_flow_inputs",
                                     "derived_inputs"}}

\* missing_inputs of calculate_metric is a list comprehension
calculated_lists(result) ==
    IF "missing_inputs" \in DOMAIN result.value
    THEN {built_list("missing_inputs")} ELSE {}

\* the list identify_metrics returns starts as `metrics = []'
identified_lists(result) == {built_list("metrics")}

\* lst.append(item) on a list the caller holds
after_append(tbls, lst, item) ==
    IF lst[1] = "METRICS"
    THEN [tbls EXCEPT !.METRICS[lst[2]].inputs = Append(@, item)]
    ELSE tbls

\* MetricsInterpreter(): the attributes __init__ sets on the instance
MetricsInterpreter == <<>>

----------------------------------------------------------------------------
(* The caller of several calls: one dataset, two interpreters *)

\* the number of calls of a session
MaxCalls == 3

Interpreters == {"first", "second"}

s_is_NetRevenue == <<"i","s",".","N","e","t","R","e","v","e","n","u","e">>

SessionNames == {s_gross_profit, s_sales, s_net_margin_pct, s_unknown_metric_xyz}

SessionDatasets ==
    {<<>>,
     (s_revenue :> PyInt(2)) @@ (s_cogs :> PyInt(1)),
     (s_is_NetRevenue :> PyInt(4)) @@ (s_revenue :> PyInt(4))
         @@ (s_net_income :> PyInt(1))}

SessionQueries ==
    {<<"W","h","a","t","'","s"," ","t","h","e"," ","G","r","o","s","s"," ",
       "p","r","o","f","i","t","?">>,
     <<"n","e","t"," ","m","a","r","g","i","n",","," ","p","e","r","c","e",
       "n","t">>,
     <<"s","a","l","e","s">>}

SessionKeywords ==
    {<<"P","r","o","f","i","t">>, <<"c","o","g","s">>, <<"z","z","z">>}

ShippedTables == [METRICS |-> METRICS, METRIC_ALIASES |-> METRIC_ALIASES]

InitSession ==
    /\ arg_data \in SessionDatasets
    /\ tables = ShippedTables
    /\ caller = [calls |-> 0, last |-> "", before |-> "",
                 interpreters |-> [i \in Interpreters |-> MetricsInterpreter],
                 on |-> "", holds |-> {}, appended |-> 0]
    /\ arg_metric_name = <<>>
    /\ outcome = NotCalled
    /\ pc = "session"
    /\ steps = <<>>
    /\ evaluated = <<>>
    /\ arg_metrics_dict = <<>>
    /\ threads = <<>>

\* the caller after a call of operation op on interpreter self (or on the
\* module, "") whose result holds the list objects lists
called(op, self, lists) ==
    [caller EXCEPT !.calls = @ + 1, !.last = op, !.before = caller.last,
                   !.on = self, !.holds = lists]

SessionCalculateMetric ==
    /\ caller.calls < MaxCalls
    /\ \E self \in Interpreters, metric_name \in SessionNames :
        LET result ==
                calculate_metric_reading(tables.METRICS,
                    tables.METRIC_ALIASES, metric_name, arg_data)
        IN  /\ arg_metric_name' = metric_name
            /\ outcome' = result
            /\ arg_data' = dataset_after("calculate_metric", arg_data, result)
            /\ tables' = tables_after("calculate_metric", tables)
            /\ caller' = called("calculate_metric", self, calculated_lists(result))
    /\ UNCHANGED <<pc, steps, evaluated, arg_metrics_dict, threads>>

SessionCalc ==
    /\ caller.calls < MaxCalls
    /\ \E key \in SessionNames :
        LET result ==
                calc_reading(tables.METRICS, key, arg_data)
        IN  /\ arg_metric_name' = key
            /\ outcome' = result
            /\ arg_data' = dataset_after("calc", arg_data, result)
            /\ tables' = tables_after("calc", tables)
            /\ caller' = called("calc", "", {})
    /\ UNCHANGED <<pc, steps, evaluated, arg_metrics_dict, threads>>

SessionGetMetricDefinition ==
    /\ caller.calls < MaxCalls
    /\ \E self \in Interpreters, metric_name \in SessionNames :
        LET result ==
                get_metric_definition_reading(tables.METRICS,
                    tables.METRIC_ALIASES, metric_name)
        IN  /\ arg_metric_name' = metric_name
            /\ outcome' = result
            /\ arg_data' = dataset_after("get_metric_definition", arg_data, result)
            /\ tables' = tables_after("get_metric_definition", tables)
            /\ caller' = called("get_metric_definition", self, definition_lists(result))
    /\ UNCHANGED <<pc, steps, evaluated, arg_metrics_dict, threads>>

SessionGetMetricRequirements ==
    /\ caller.calls < MaxCalls
    /\ \E metric_name \in SessionNames :
        LET result ==
                get_metric_requirements_run(tables.METRICS,
                    tables.METRIC_ALIASES, metric_name).outcome
        IN  /\ arg_metric_name' = metric_name
            /\ outcome' = result
            /\ arg_data' = dataset_after("get_metric_requirements", arg_data, result)
            /\ tables' = tables_after("get_metric_requirements", tables)
            /\ caller' = called("get_metric_requirements", "", requirements_lists(result))
    /\ UNCHANGED <<pc, steps, evaluated, arg_metrics_dict, threads>>

SessionGetAvailableMetrics ==
    /\ caller.calls < MaxCalls
    /\ LET result ==
               get_available_metrics(tables.METRICS)
       IN  /\ arg_metric_name' = <<>>
           /\ outcome' = result
           /\ arg_data' = dataset_after("get_available_metrics", arg_data, result)
           /\ tables' = tables_after("get_available_metrics", tables)
           /\ caller' = called("get_available_metrics", "", listed_lists(result))
    /\ UNCHANGED <<pc, steps, evaluated, arg_metrics_dict, threads>>

SessionFindMetricsByKeyword ==
    /\ caller.calls < MaxCalls
    /\ \E keyword \in SessionKeywords :
        LET result ==
                find_metrics_by_keyword(tables.METRICS, keyword)
        IN  /\ arg_metric_name' = keyword
            /\ outcome' = result
            /\ arg_data' = dataset_after("find_metrics_by_keyword", arg_data, result)
            /\ tables' = tables_after("find_metrics_by_keyword", tables)
            /\ caller' = called("find_metrics_by_keyword", "", listed_lists(result))
    /\ UNCHANGED <<pc, steps, evaluated, arg_metrics_dict, threads>>

SessionIdentifyMetrics ==
    /\ caller.calls < MaxCalls
    /\ \E self \in Interpreters, query \in SessionQueries :
        LET result ==
                identify_metrics(tables.METRIC_ALIASES, query)
        IN  /\ arg_metric_name' = query
            /\ outcome' = result
            /\ arg_data' = dataset_after("identify_metrics", arg_data, result)
            /\ tables' = tables_after("identify_metrics", tables)
            /\ caller' = called("identify_metrics", self, identified_lists(result))
    /\ UNCHANGED <<pc, steps, evaluated, arg_metrics_dict, threads>>

NextSession ==
    \/ SessionCalculateMetric
    \/ SessionCalc
    \/ SessionGetMetricDefinition
    \/ SessionGetMetricRequirements
    \/ SessionGetAvailableMetrics
    \/ SessionFindMetricsByKeyword
    \/ SessionIdentifyMetrics

SpecSession == InitSession /\ [][NextSession]_vars

----------------------------------------------------------------------------
(* C21: a call of calculate_metric, calc, get_metric_definition,            *)
(* get_metric_requirements, get_available_metrics, find_metrics_by_keyword  *)
(* or identify_metrics, whether it succeeds or fails, leaves the caller's   *)
(* dataset, METRICS and METRIC_ALIASES as they were: after any sequence of  *)
(* such calls the three hold what they held before the first.               *)
C21_CallsLeaveDatasetAndTablesAlone ==
    [][arg_data' = arg_data /\ tables' = tables]_vars

\* a successful calculate_metric after a call of calc
C21_Witness ==
    /\ caller.before = "calc"
    /\ caller.last = "calculate_metric"
    /\ outcome.value.success
    /\ tables = ShippedTables
    /\ arg_data # <<>>

----------------------------------------------------------------------------
(* C23: calculate_metric is stateless and deterministic: whatever calls     *)
(* came before it and whichever interpreter it is made on, a call returns   *)
(* the result that (metric name, dataset) has on a new interpreter with the *)
(* tables as shipped.                                                       *)
C23_ResultIsAFunctionOfNameAndDataset ==
    caller.last = "calculate_metric" =>
        outcome = calculate_metric(arg_metric_name, arg_data)

\* a successful call on the second interpreter, made after a keyword search
C23_Witness ==
    /\ caller.last = "calculate_metric"
    /\ caller.before = "find_metrics_by_keyword"
    /\ caller.on = "second"
    /\ caller.calls >= 2
    /\ outcome.value.success

----------------------------------------------------------------------------
(* calculate_metric invoked from several threads on one interpreter, each   *)
(* with its own dataset.  An invocation is a sequence of steps, and the     *)
(* steps of the threads interleave.  The names of calculate_metric          *)
(* (metric_name, data, metric_spec, result) are local variables: each       *)
(* invocation has a frame of its own.  The interpreter has no attributes    *)
(* and no step writes METRICS or METRIC_ALIASES.                            *)

\* the number of threads
NumThreads == 2

Threads == 1..NumThreads

\* mutant of frame_of: the invocations keep their variables in one place
frame_of_shared(t) == 1

\* the frame of the invocation of thread t
frame_of(t) == t

s_ltm_revenue == <<"l","t","m","_","r","e","v","e","n","u","e">>

\* the invocations of the threads: a name and a dataset
ThreadCalls ==
    {[metric_name |-> s_sales, data |-> (s_is_NetRevenue :> PyInt(4))],
     [metric_name |-> s_gross_profit,
      data |-> (s_revenue :> PyInt(2)) @@ (s_cogs :> PyInt(1))],
     [metric_name |-> s_gross_profit, data |-> (s_revenue :> PyInt(2))],
     [metric_name |-> s_net_margin_pct,
      data |-> (s_net_income :> PyInt(1)) @@ (s_revenue :> PyInt(4))],
     [metric_name |-> s_net_margin_pct,
      data |-> (s_net_income :> PyInt(1)) @@ (s_revenue :> PyInt(0))],
     [metric_name |-> s_ltm_revenue, data |-> <<>>],
     [metric_name |-> s_unknown_metric_xyz, data |-> <<>>]}

\* a frame before the invocation has bound its names
NewFrame ==
    [metric_name |-> None, data |-> None, metric_spec |-> None,
     result |-> None]

InitThreads ==
    /\ threads \in {[call |-> c,
                     pc |-> [t \in Threads |-> "call"],
                     frame |-> [t \in Threads |-> NewFrame],
                     outcome |-> [t \in Threads |-> NotCalled]]
                    : c \in [Threads -> ThreadCalls]}
    /\ arg_metric_name = <<>>
    /\ arg_data = <<>>
    /\ pc = "threads"
    /\ outcome = NotCalled
    /\ steps = <<>>
    /\ evaluated = <<>>
    /\ arg_metrics_dict = <<>>
    /\ tables = <<>>
    /\ caller = <<>>

\* the variables the steps of a thread leave alone
OnlyThreads ==
    UNCHANGED <<arg_metric_name, arg_data, pc, outcome, steps, evaluated,
                arg_metrics_dict, tables, caller>>

\* thread t returns result
returned(t, result) ==
    [threads EXCEPT !.pc[t] = "done", !.outcome[t] = result]

\* the call binds metric_name and data
ThreadEnter ==
    /\ \E t \in Threads :
        /\ threads.pc[t] = "call"
        /\ threads' = [threads EXCEPT
               !.pc[t] = "alias",
               !.frame[frame_of(t)] =
                   [NewFrame EXCEPT !.metric_name = threads.call[t].metric_name,
                                    !.data = threads.call[t].data]]
    /\ OnlyThreads

\* if metric_name in METRIC_ALIASES: metric_name = METRIC_ALIASES[metric_name]
ThreadResolveAlias ==
    /\ \E t \in Threads :
        /\ threads.pc[t] = "alias"
        /\ threads' = [threads EXCEPT
               !.pc[t] = "lookup",
               !.frame[frame_of(t)].metric_name = canonical_name(@)]
    /\ OnlyThreads

\* if metric_name not in METRICS: return ...; metric_spec = METRICS[metric_name]
ThreadLookup ==
    /\ \E t \in Threads :
        LET local == threads.frame[frame_of(t)]
        IN  /\ threads.pc[t] = "lookup"
            /\ threads' =
                 IF local.metric_name \notin DOMAIN METRICS
                 THEN returned(t, Return(unknown_metric(local.metric_name)))
                 ELSE [threads EXCEPT
                          !.pc[t] = "inputs",
                          !.frame[frame_of(t)].metric_spec =
                              METRICS[local.metric_name]]
    /\ OnlyThreads

\* missing_inputs = [...]; if missing_inputs: return ...
ThreadCheckInputs ==
    /\ \E t \in Threads :
        LET local == threads.frame[frame_of(t)]
            missing_inputs == absent_inputs(local.metric_spec.inputs,
                                            local.data)
        IN  /\ threads.pc[t] = "inputs"
            /\ threads' =
                 IF missing_inputs # <<>>
                 THEN returned(t, Return(missing_data(local.metric_name,
                                                      missing_inputs)))
                 ELSE [threads EXCEPT !.pc[t] = "calc"]
    /\ OnlyThreads

\* result = calc(METRICS, metric_name, data), inside the try block
ThreadCalc ==
    /\ \E t \in Threads :
        LET local == threads.frame[frame_of(t)]
            result == calc(METRICS, local.metric_name, local.data)
        IN  /\ threads.pc[t] = "calc"
            /\ threads' =
                 IF result.raised
                 THEN returned(t, except_Exception(local.metric_name,
                                      local.metric_spec.formula, result.exc))
                 ELSE [threads EXCEPT
                          !.pc[t] = "scale",
                          !.frame[frame_of(t)].result = result.value]
    /\ OnlyThreads

\* if metric_name.endswith('_pct') and not isinstance(result, str):
\*     result = result * 100
ThreadScale ==
    /\ \E t \in Threads :
        LET local == threads.frame[frame_of(t)]
            result == scale(local.metric_name, local.result)
        IN  /\ threads.pc[t] = "scale"
            /\ threads' =
                 IF result.raised
                 THEN returned(t, except_Exception(local.metric_name,
                                      local.metric_spec.formula, result.exc))
                 ELSE [threads EXCEPT
                          !.pc[t] = "return",
                          !.frame[frame_of(t)].result = result.value]
    /\ OnlyThreads

\* return {"success": True, ...}
ThreadReturn ==
    /\ \E t \in Threads :
        LET local == threads.frame[frame_of(t)]
        IN  /\ threads.pc[t] = "return"
            /\ threads' = returned(t, Return(calculated(local.metric_name,
                              local.metric_spec, local.result, local.data)))
    /\ OnlyThreads

NextThreads ==
    \/ ThreadEnter
    \/ ThreadResolveAlias
    \/ ThreadLookup
    \/ ThreadCheckInputs
    \/ ThreadCalc
    \/ ThreadScale
    \/ ThreadReturn

SpecThreads == InitThreads /\ [][NextThreads]_vars

----------------------------------------------------------------------------
(* C22: when calculate_metric is invoked from several threads, each on its  *)
(* own dataset, every invocation returns, under every interleaving of the   *)
(* steps, the result it returns when it runs alone.                         *)
C22_ThreadsReturnWhatTheyReturnAlone ==
    \A t \in Threads :
        threads.pc[t] = "done" =>
            threads.outcome[t] = calculate_metric(threads.call[t].metric_name,
                                                  threads.call[t].data)

\* one invocation has returned a value while another, of another metric on
\* another dataset, has resolved its alias and not yet evaluated its formula
C22_Witness ==
    \E t, u \in Threads :
        /\ threads.pc[t] = "done"
        /\ threads.outcome[t].value.success
        /\ threads.pc[u] = "calc"
        /\ threads.call[u].metric_name # threads.call[t].metric_name
        /\ threads.call[u].data # threads.call[t].data

----------------------------------------------------------------------------
(* C25: an invocation of calculate_metric goes through its checks in one    *)
(* order: alias resolution, registry lookup, input presence, evaluation,    *)
(* percentage scaling; a check that fails returns at once.  The formula is  *)
(* evaluated only when every direct input of the metric is in the dataset,  *)
(* so ltm_revenue on an empty dataset ends with missing inputs and never    *)
(* with an evaluation error.                                                *)
Phases == <<"call", "alias", "lookup", "inputs", "calc", "scale", "return">>

C25_ChecksRunInOrder ==
    /\ [][\A t \in Threads :
             threads'.pc[t] # threads.pc[t] =>
                 \/ threads'.pc[t] = "done"
                 \/ IndexOf(Phases, threads'.pc[t], 1)
                        = IndexOf(Phases, threads.pc[t], 1) + 1]_vars
    /\ [](\A t \in Threads :
             LET call == threads.call[t]
                 canonical == canonical_name(call.metric_name)
                 AllInputsPresent ==
                     /\ canonical \in DOMAIN METRICS
                     /\ Range(METRICS[canonical].inputs) \subseteq DOMAIN call.data
                 result == threads.outcome[t].value
             IN  /\ threads.pc[t] \in {"calc", "scale", "return"}
                     => AllInputsPresent
                 /\ (threads.pc[t] = "done" /\ "value" \in DOMAIN result)
                     => AllInputsPresent
                 /\ (threads.pc[t] = "done" /\ ~result.success
                        /\ result.error[1] = "Error calculating metric")
                     => AllInputsPresent
                 /\ (threads.pc[t] = "done" /\ call.metric_name = s_ltm_revenue
                        /\ call.data = <<>>)
                     => /\ result.error[1] = "Missing data for inputs"
                        /\ result.missing_inputs = METRICS[s_ltm_revenue].inputs)

\* ltm_revenue on the empty dataset has returned its four missing inputs
C25_Witness ==
    \E t \in Threads :
        /\ threads.pc[t] = "done"
        /\ threads.call[t] = [metric_name |-> s_ltm_revenue, data |-> <<>>]
        /\ threads.outcome[t].value.error[1] = "Missing data for inputs"
        /\ Len(threads.outcome[t].value.missing_inputs) = 4

----------------------------------------------------------------------------
(* The caller of get_metric_definition: a name, then one call *)

GetMetricDefinition ==
    /\ pc = "call"
    /\ outcome' = get_metric_definition(arg_metric_name)
    /\ steps' = <<>>
    /\ pc' = "done"
    /\ UNCHANGED <<arg_metric_name, arg_data, arg_metrics_dict, evaluated,
                   tables, caller, threads>>

NextDefinition == GetMetricDefinition

SpecDefinition == InitRequirements /\ [][NextDefinition]_vars

----------------------------------------------------------------------------
(* C24: get_metric_definition resolves the supplied name through the alias  *)
(* table as calculate_metric does.  It returns the unknown-metric result    *)
(* for exactly the names on which calculate_metric fails with unknown       *)
(* metric; for every other name it returns the description, formula and     *)
(* inputs of the canonical entry, with is_alias true and original_name set  *)
(* to the supplied name exactly when that name is an alias key.             *)
C24_DefinitionResolvesLikeCalculateMetric ==
    Done =>
        LET alone == calculate_metric(arg_metric_name, <<>>).value
            unknown == alone.error[1] = "Unknown metric"
            is_alias == arg_metric_name \in DOMAIN METRIC_ALIASES
        IN  /\ ~outcome.raised
            /\ unknown <=> ~outcome.value.success
            /\ unknown => outcome.value = alone
            /\ ~unknown =>
                  /\ outcome.value.metric = alone.metric
                  /\ outcome.value.metric \in DOMAIN METRICS
                  /\ outcome.value.description
                         = METRICS[alone.metric].desc
                  /\ outcome.value.formula = METRICS[alone.metric].formula
                  /\ outcome.value.inputs = METRICS[alone.metric].inputs
                  /\ outcome.value.is_alias = is_alias
                  /\ outcome.value.original_name
                         = (IF is_alias THEN Str(arg_metric_name) ELSE None)

\* the definition asked for under the alias sales is the one of revenue
C24_Witness ==
    /\ Done
    /\ arg_metric_name = s_sales
    /\ outcome.value.success
    /\ outcome.value.metric = s_revenue
    /\ outcome.value.is_alias
    /\ outcome.value.original_name = Str(s_sales)

----------------------------------------------------------------------------
(* The caller of calculate_metric on a metric that has metrics among its    *)
(* inputs: the dataset holds some of the metric's inputs and some of the    *)
(* inputs of those inputs.                                                  *)

\* the inputs of the inputs of a registry entry that are metrics themselves
InputsOfInputs(spec) ==
    UNION {Range(METRICS[inp].inputs) : inp \in Range(spec.inputs) \cap DOMAIN METRICS}

NestedNames ==
    {name \in DOMAIN METRICS \cup DOMAIN METRIC_ALIASES :
        InputsOfInputs(METRICS[canonical_name(name)]) # {}}

\* the keys of the caller's datasets that are no direct input of the metric
OtherKeys(spec) == InputsOfInputs(spec) \ Range(spec.inputs)

\* the datasets that hold direct under the direct inputs of the metric
DatasetsWith(spec, direct) ==
    {direct @@ other :
        other \in UNION {[K -> {PyInt(1)}] : K \in SUBSET OtherKeys(spec)}}

NestedDatasets(name) ==
    LET spec == METRICS[canonical_name(name)]
    IN  UNION {DatasetsWith(spec, direct) :
                  direct \in UNION {[K -> {PyInt(1), PyInt(2)}] :
                                       K \in SUBSET Range(spec.inputs)}}

InitNested ==
    /\ arg_metric_name \in NestedNames
    /\ arg_data \in NestedDatasets(arg_metric_name)
    /\ pc = "call"
    /\ outcome = NotCalled
    /\ steps = <<>>
    /\ evaluated = <<>>
    /\ arg_metrics_dict = <<>>
    /\ tables = <<>>
    /\ caller = <<>>
    /\ threads = <<>>

SpecNested == InitNested /\ [][Next]_vars

s_is_CostOfRevenue ==
    <<"i","s",".","C","o","s","t","O","f","R","e","v","e","n","u","e">>

\* the datasets of the caller that hold what d holds under the direct inputs
\* of the metric, and anything under the other keys
AgreeingDatasets(name, d) ==
    LET spec == METRICS[canonical_name(name)]
    IN  DatasetsWith(spec, DirectInputsOnly(spec, d))

(* C26: the result of calculate_metric depends only on the canonical metric *)
(* name and on what the dataset holds under the direct inputs of the        *)
(* metric: two datasets that agree on those keys give the same result, and  *)
(* so do two names of one metric.  A direct input that is a metric name is  *)
(* never computed from the inputs of that metric: when it is not a key of   *)
(* the dataset it is reported missing, whatever else the dataset holds.     *)
C26_OnlyDirectInputsCount ==
    Done =>
        /\ \A e \in AgreeingDatasets(arg_metric_name, arg_data) :
              calculate_metric(arg_metric_name, e) = outcome
        /\ outcome = calculate_metric(Resolved, arg_data)
        /\ \A inp \in Range(METRICS[Resolved].inputs) \ DOMAIN arg_data :
              /\ outcome.value.error[1] = "Missing data for inputs"
              /\ inp \in Range(outcome.value.missing_inputs)

\* gross_profit on a dataset with is.NetRevenue and is.CostOfRevenue, the
\* inputs of revenue and cogs, and neither revenue nor cogs
C26_Witness ==
    /\ Done
    /\ arg_metric_name = s_gross_profit
    /\ DOMAIN arg_data = {s_is_NetRevenue, s_is_CostOfRevenue}
    /\ outcome.value.missing_inputs = <<s_revenue, s_cogs>>

----------------------------------------------------------------------------
(* C27: in every result of get_metric_requirements for a registered metric  *)
(* the four buckets partition all_required_inputs: an identifier of         *)
(* all_required_inputs is in income_statement_inputs when it starts with    *)
(* is., in balance_sheet_inputs when it starts with bs., in                 *)
(* cash_flow_inputs when it starts with cf. and in derived_inputs           *)
(* otherwise, once and in that bucket only, and no bucket holds an          *)
(* identifier that all_required_inputs does not hold.                       *)
C27_BucketsPartitionRequiredInputs ==
    (Done /\ "error" \notin DOMAIN outcome.value) =>
        LET r == outcome.value
            all == r.all_required_inputs
        IN  /\ r.income_statement_inputs (+) r.balance_sheet_inputs
                  (+) r.cash_flow_inputs (+) r.derived_inputs = all
            /\ \A inp \in BagToSet(all) : all[inp] = 1
            /\ \A inp \in BagToSet(r.income_statement_inputs) :
                  startswith(inp, <<"i","s",".">>)
            /\ \A inp \in BagToSet(r.balance_sheet_inputs) :
                  startswith(inp, <<"b","s",".">>)
            /\ \A inp \in BagToSet(r.cash_flow_inputs) :
                  startswith(inp, <<"c","f",".">>)
            /\ \A inp \in BagToSet(r.derived_inputs) :
                  /\ ~startswith(inp, <<"i","s",".">>)
                  /\ ~startswith(inp, <<"b","s",".">>)
                  /\ ~startswith(inp, <<"c","f",".">>)

s_fcf_margin_pct ==
    <<"f","c","f","_","m","a","r","g","i","n","_","p","c","t">>

\* fcf_margin_pct: identifiers in three buckets and none in
\* balance_sheet_inputs
C27_Witness ==
    /\ Done
    /\ arg_metric_name = s_fcf_margin_pct
    /\ BagToSet(outcome.value.income_statement_inputs) = {s_is_NetRevenue}
    /\ BagToSet(outcome.value.balance_sheet_inputs) = {}
    /\ BagToSet(outcome.value.cash_flow_inputs)
           = {s_cf_CashFromOperations, s_cf_CapEx}
    /\ BagToSet(outcome.value.derived_inputs)
           = {s_cfo, s_capex, s_free_cash_flow, s_revenue}

----------------------------------------------------------------------------
(* C29: no key of METRIC_ALIASES is a key of METRICS, so the alias lookup   *)
(* never replaces the name of a registered metric: a call under the name of *)
(* a registry entry is answered for that entry.                             *)
C29_NoAliasShadowsAMetric ==
    /\ DOMAIN METRIC_ALIASES \cap DOMAIN METRICS = {}
    /\ \A name \in DOMAIN METRICS : canonical_name(name) = name
    /\ (Done /\ arg_metric_name \in DOMAIN METRICS) =>
          /\ "metric" \in DOMAIN outcome.value
          /\ outcome.value.metric = arg_metric_name
          /\ Succeeded => outcome.value.formula = METRICS[arg_metric_name].formula

\* revenue, which has the aliases sales and top_line, calculated under its
\* own name
C29_Witness ==
    /\ Succeeded
    /\ arg_metric_name = s_revenue
    /\ outcome.value.metric = s_revenue
    /\ \E alias \in DOMAIN METRIC_ALIASES : METRIC_ALIASES[alias] = s_revenue

----------------------------------------------------------------------------
(* The caller of several calls who also appends to a list of a result *)

\* the number of items the caller appends
MaxAppends == 1

s_extra == <<"e","x","t","r","a">>

\* the metrics whose dicts the caller picks out of a result to modify
PickedMetrics == {s_gross_profit, s_revenue}

\* result[...]["inputs"].append("extra"), or the same on another list of the
\* last result
CallerAppends ==
    /\ caller.appended < MaxAppends
    /\ \E lst \in caller.holds :
        /\ lst[1] = "METRICS" => lst[2] \in PickedMetrics
        /\ tables' = after_append(tables, lst, s_extra)
        /\ caller' = [caller EXCEPT !.appended = @ + 1, !.last = "append",
                                    !.before = <<caller.last, lst[1]>>]
    /\ UNCHANGED <<arg_metric_name, arg_data, outcome, pc, steps, evaluated,
                   arg_metrics_dict, threads>>

NextSharing ==
    \/ NextSession
    \/ CallerAppends

SpecSharing == InitSession /\ [][NextSharing]_vars

----------------------------------------------------------------------------
(* C28: a result of get_metric_definition, get_available_metrics,           *)
(* find_metrics_by_keyword or get_metric_requirements shares no list with   *)
(* METRICS: when the caller appends to a list of a result, the registry     *)
(* holds what it held, and every later calculate_metric and lookup returns  *)
(* what it returns on the registry as shipped.                              *)
C28_ResultsShareNothingWithRegistry ==
    /\ tables = ShippedTables
    /\ caller.last = "calculate_metric" =>
          outcome = calculate_metric(arg_metric_name, arg_data)
    /\ caller.last = "get_metric_definition" =>
          outcome = get_metric_definition(arg_metric_name)
    /\ caller.last = "get_metric_requirements" =>
          outcome = get_metric_requirements(arg_metric_name)

\* after an append to the inputs list of a result, gross_profit has a third
\* input in the registry and calculate_metric reports it missing on a dataset
\* with revenue and cogs
C28_RegistryChangedThroughResult ==
    /\ caller.appended = 1
    /\ tables.METRICS[s_gross_profit].inputs = <<s_revenue, s_cogs, s_extra>>
    /\ caller.last = "calculate_metric"
    /\ arg_metric_name = s_gross_profit
    /\ DOMAIN arg_data = {s_revenue, s_cogs}
    /\ outcome.value.missing_inputs = <<s_extra>>
    /\ calculate_metric(arg_metric_name, arg_data).value.success

----------------------------------------------------------------------------
(* calculate_all_metrics of metrics_dashboard_demo.py, statement by         *)
(* statement.  arg_data is company_data (year -> dataset), outcome is       *)
(* derived_data as built so far, and steps has one record for every metric  *)
(* the single-period loop has reached.                                      *)

\* one `if target not in derived_data[year] and sources in derived_data[year]'
\* statement: the target is the source, or the sum or difference of the two
derivation(target, sources, how) ==
    [target |-> target, sources |-> sources, how |-> how]

\* the first and second pass, in source order
derivations == <<
    \* line 553
    derivation(<<"r","e","v","e","n","u","e">>,
               <<<<"i","s",".","N","e","t","R","e","v","e","n","u","e">>>>, "copy"),
    \* line 556
    derivation(<<"c","o","g","s">>,
               <<<<"i","s",".","C","o","s","t","O","f","R","e","v","e","n","u","e">>>>, "copy"),
    \* line 559
    derivation(<<"o","p","e","r","a","t","i","n","g","_","i","n","c","o","m","e">>,
               <<<<"i","s",".","O","p","e","r","a","t","i","n","g","I","n","c","o","m","e">>>>, "copy"),
    \* line 562
    derivation(<<"e","b","i","t">>,
               <<<<"o","p","e","r","a","t","i","n","g","_","i","n","c","o","m","e">>>>, "copy"),
    \* line 565
    derivation(<<"e","b","i","t","d","a">>,
               <<<<"o","p","e","r","a","t","i","n","g","_","i","n","c","o","m","e">>,
                 <<"i","s",".","D","&","A">>>>, "+"),
    \* line 568
    derivation(<<"n","e","t","_","i","n","c","o","m","e">>,
               <<<<"i","s",".","N","e","t","I","n","c","o","m","e">>>>, "copy"),
    \* line 571
    derivation(<<"r","n","d">>,
               <<<<"i","s",".","R","D">>>>, "copy"),
    \* line 574
    derivation(<<"s","g","a">>,
               <<<<"i","s",".","S","G","&","A">>>>, "copy"),
    \* line 577
    derivation(<<"s","h","a","r","e","h","o","l","d","e","r","s","_","e","q","u","i","t","y">>,
               <<<<"b","s",".","T","o","t","a","l","E","q","u","i","t","y">>>>, "copy"),
    \* line 580
    derivation(<<"t","o","t","a","l","_","a","s","s","e","t","s">>,
               <<<<"b","s",".","T","o","t","a","l","A","s","s","e","t","s">>>>, "copy"),
    \* line 583
    derivation(<<"c","f","o">>,
               <<<<"c","f",".","C","a","s","h","F","r","o","m","O","p","e","r","a","t","i","o","n","s">>>>, "copy"),
    \* line 586
    derivation(<<"c","a","p","e","x">>,
               <<<<"c","f",".","C","a","p","E","x">>>>, "copy"),
    \* line 590
    derivation(<<"g","r","o","s","s","_","p","r","o","f","i","t">>,
               <<<<"r","e","v","e","n","u","e">>,
                 <<"c","o","g","s">>>>, "-"),
    \* line 593
    derivation(<<"f","r","e","e","_","c","a","s","h","_","f","l","o","w">>,
               <<<<"c","f","o">>,
                 <<"c","a","p","e","x">>>>, "-")>>

\* derived_data[year] after one statement of the two passes
derive(d, rule) ==
    IF rule.target \in DOMAIN d \/ ~(Range(rule.sources) \subseteq DOMAIN d)
    THEN d
    ELSE (rule.target :>
             (IF rule.how = "copy" THEN d[rule.sources[1]]
              ELSE BinOp(rule.how, d[rule.sources[1]],
                         d[rule.sources[2]]).value)) @@ d

\* derived_data[year] after the statements from position i on
RECURSIVE derive_from(_, _)
derive_from(d, i) ==
    IF i > Len(derivations) THEN d
    ELSE derive_from(derive(d, derivations[i]), i + 1)

\* the copy of the year's source data after the first and second pass
first_passes(data) == derive_from(data, 1)

\* `"_t" in METRICS[metric_name]["formula"]'
is_skipped(metric_spec) == contains(metric_spec.formula, <<"_","t">>)

\* what the single-period loop does with one metric on derived_data[year]
single_period(metric_name, d) ==
    IF is_skipped(METRICS[metric_name]) THEN [did |-> "skipped", data |-> d]
    ELSE IF metric_name \in DOMAIN d THEN [did |-> "present", data |-> d]
    ELSE LET result == calculate_metric(metric_name, d).value
         IN  IF result.success
             THEN [did |-> "stored",
                   data |-> (metric_name :> result.value) @@ d]
             ELSE [did |-> "failed", data |-> d]

\* time_series_data of a current and a previous year
time_series_data(current, previous) ==
    LET now == [k \in {m \o <<"_","t">> : m \in DOMAIN current} |->
                   current[SubSeq(k, 1, Len(k) - 2)]]
        before == [k \in {m \o <<"_","t","-","1">> : m \in DOMAIN previous} |->
                      previous[SubSeq(k, 1, Len(k) - 4)]]
    IN  before @@ now

\* derived_data[current_year] after the loop over the time-series metrics
multi_period(current, previous) ==
    LET series == time_series_data(current, previous)
        stored == {m \in DOMAIN METRICS :
                      /\ is_skipped(METRICS[m])
                      /\ m \notin DOMAIN current
                      /\ calculate_metric(m, series).value.success}
    IN  [m \in stored |-> calculate_metric(m, series).value.value] @@ current

\* the years of every company, as sorted(derived_data.keys()) orders them
YearOrder == <<"2022", "2023">>

\* derived_data after the iterations of the multi-period pass from year i on
RECURSIVE multi_periods(_, _, _)
multi_periods(derived, years, i) ==
    IF i > Len(years) THEN derived
    ELSE multi_periods(
             [derived EXCEPT ![years[i]] =
                 multi_period(derived[years[i]], derived[years[i - 1]])],
             years, i + 1)

----------------------------------------------------------------------------
(* The caller of calculate_all_metrics: one company with one or two years *)

\* the source data of a year
YearDatasets ==
    {(<<"i","s",".","N","e","t","R","e","v","e","n","u","e">> :> PyInt(4)) @@
       (<<"i","s",".","C","o","s","t","O","f","R","e","v","e","n","u","e">> :> PyInt(1)) @@
       (<<"b","s",".","L","o","n","g","T","e","r","m","D","e","b","t">> :> PyInt(2)) @@
       (<<"b","s",".","T","o","t","a","l","E","q","u","i","t","y">> :> PyInt(4)),
     (<<"i","s",".","N","e","t","R","e","v","e","n","u","e">> :> PyInt(2)) @@
       (<<"i","s",".","O","p","e","r","a","t","i","n","g","I","n","c","o","m","e">> :> PyInt(1)) @@
       (<<"i","s",".","D","&","A">> :> PyInt(1)) @@
       (<<"b","s",".","L","o","n","g","T","e","r","m","D","e","b","t">> :> PyInt(1)),
     (<<"b","o","a","r","d","_","i","n","d","e","p","e","n","d","e","n","t">> :> PyInt(1)) @@
       (<<"b","o","a","r","d","_","t","o","t","a","l">> :> PyInt(2)) @@
       (<<"c","f",".","C","a","s","h","F","r","o","m","O","p","e","r","a","t","i","o","n","s">> :> PyInt(3)) @@
       (<<"c","f",".","C","a","p","E","x">> :> PyInt(1)),
     (<<"r","e","v","e","n","u","e">> :> PyInt(4)) @@
       (<<"n","e","t","_","i","n","c","o","m","e">> :> PyInt(1)) @@
       (<<"r","e","v","e","n","u","e","_","t">> :> PyInt(1)) @@
       (<<"r","e","v","e","n","u","e","_","t","-","1">> :> PyInt(1)) @@
       (<<"r","e","v","e","n","u","e","_","t","-","2">> :> PyInt(1)) @@
       (<<"r","e","v","e","n","u","e","_","t","-","3">> :> PyInt(1)),
     <<>>}

Companies ==
    UNION {[{YearOrder[k] : k \in 1..n} -> YearDatasets] : n \in 1..Len(YearOrder)}

InitAllMetrics ==
    /\ arg_data \in Companies
    /\ outcome = <<>>
    /\ pc = "copy"
    /\ steps = <<>>
    /\ arg_metric_name = <<>>
    /\ evaluated = <<>>
    /\ arg_metrics_dict = <<>>
    /\ tables = <<>>
    /\ caller = <<>>
    /\ threads = <<>>

\* the years of company_data, in the order of `for year, data in
\* company_data.items()'
years_of(company_data) ==
    SelectSeq(YearOrder, LAMBDA year : year \in DOMAIN company_data)

\* the year the first loop is at: it has reached every metric for the years
\* before it
year_at == years_of(arg_data)[(Len(steps) \div Len(METRICS_keys)) + 1]

\* the metric the single-period loop is at
metric_at == METRICS_keys[(Len(steps) % Len(METRICS_keys)) + 1]

\* derived_data[year] = {}, the copy of the source data, the two passes
CopyAndDerive ==
    /\ pc = "copy"
    /\ outcome' = (year_at :> first_passes(arg_data[year_at])) @@ outcome
    /\ pc' = "loop"
    /\ UNCHANGED <<arg_metric_name, arg_data, steps, evaluated,
                   arg_metrics_dict, tables, caller, threads>>

\* one iteration of `for metric_name in METRICS'
SinglePeriodStep ==
    /\ pc = "loop"
    /\ \E after \in {single_period(metric_at, outcome[year_at])} :
           /\ outcome' = [outcome EXCEPT ![year_at] = after.data]
           /\ steps' = Append(steps,
                  [year |-> year_at, metric |-> metric_at, did |-> after.did,
                   ready |-> Range(METRICS[metric_at].inputs)
                                 \subseteq DOMAIN outcome[year_at]])
           /\ pc' = IF Len(steps') % Len(METRICS_keys) # 0 THEN "loop"
                    ELSE IF Len(steps') = Len(METRICS_keys)
                                             * Len(years_of(arg_data))
                    THEN "periods" ELSE "copy"
    /\ UNCHANGED <<arg_metric_name, arg_data, evaluated, arg_metrics_dict,
                   tables, caller, threads>>

\* the multi-period pass and `return derived_data'
MultiPeriodPass ==
    /\ pc = "periods"
    /\ outcome' = multi_periods(outcome, years_of(arg_data), 2)
    /\ pc' = "done"
    /\ UNCHANGED <<arg_metric_name, arg_data, steps, evaluated,
                   arg_metrics_dict, tables, caller, threads>>

NextAllMetrics ==
    \/ CopyAndDerive
    \/ SinglePeriodStep
    \/ MultiPeriodPass

SpecAllMetrics == InitAllMetrics /\ [][NextAllMetrics]_vars

----------------------------------------------------------------------------
(* The single-period pass of calculate_all_metrics and the time-series      *)
(* metrics                                                                  *)

\* an input name with a period suffix: x_t, x_t-1, x_t-2, ...
carries_period_suffix(inp) ==
    \/ endswith(inp, <<"_","t">>)
    \/ \E n \in {"1","2","3","4","5","6","7","8","9"} :
           endswith(inp, <<"_","t","-",n>>)

\* a time-series metric: one of its inputs carries a period suffix
is_time_series(metric_spec) ==
    \E i \in 1..Len(metric_spec.inputs) :
        carries_period_suffix(metric_spec.inputs[i])

s_debt_equity == <<"d","e","b","t","_","e","q","u","i","t","y">>
s_long_term_debt == <<"l","o","n","g","_","t","e","r","m","_","d","e","b","t">>
s_shareholders_equity ==
    <<"s","h","a","r","e","h","o","l","d","e","r","s","_","e","q","u","i","t","y">>

\* C30: in the single-period pass a metric is skipped exactly if it is a
\* time-series metric, and every other metric whose direct inputs are all in
\* the year's data when the loop reaches it is in the year's data afterwards.
C30_SinglePeriodPassSkipsExactlyTimeSeries ==
    \A k \in 1..Len(steps) :
        LET reached == steps[k]
            metric_spec == METRICS[reached.metric]
        IN  /\ (reached.did = "skipped") <=> is_time_series(metric_spec)
            /\ (~is_time_series(metric_spec) /\ reached.ready)
                   => reached.metric \in DOMAIN outcome[reached.year]

\* C30, the state that contradicts it: calculate_all_metrics has returned, a
\* year's data holds long_term_debt and shareholders_equity, calculate_metric
\* on it gives debt_equity, the loop skipped debt_equity with both inputs
\* present, and the year's data has no debt_equity.
C30_DebtEquitySkipped ==
    /\ pc = "done"
    /\ \E year \in DOMAIN outcome :
        /\ {s_long_term_debt, s_shareholders_equity} \subseteq DOMAIN outcome[year]
        /\ ~is_time_series(METRICS[s_debt_equity])
        /\ calculate_metric(s_debt_equity, outcome[year]).value.success
        /\ \E k \in 1..Len(steps) :
               steps[k] = [year |-> year, metric |-> s_debt_equity,
                           did |-> "skipped", ready |-> TRUE]
        /\ s_debt_equity \notin DOMAIN outcome[year]

=============================================================================
